---------------------------- MODULE Spec2Model ----------------------------
(***************************************************************************)
(* A model of the WaveType dictation backend (src-tauri/src): the sliding  *)
(* window rate limiter, the audio recorder with its capture thread, the    *)
(* model handle behind its mutex, and the transcript post-processor.       *)
(*                                                                         *)
(* Each subsystem has its own specification (SpecLimiter, SpecStart,       *)
(* SpecRec, SpecModel, SpecPost); the variables of the other subsystems    *)
(* stay at their initial values there.                                     *)
(***************************************************************************)
EXTENDS Integers, Sequences, FiniteSets, TLC

VARIABLES
    now,            \* Instant::now(), in whole seconds since process start
    requests,       \* RateLimiter.requests of a limiter built with (LimN, LimW)
    admitted,       \* history: per key, the times at which check returned true
    lastCheck,      \* history: the last check call, [key, ok]; key "none" before any
    recRequests,    \* RecordingRateLimiter: the timestamps stored for "start_recording"
    recorder,       \* RecorderState: TRUE when the Option holds an AudioRecorder
    samples,        \* AudioRecorder.samples, the shared buffer
    is_recording,   \* AudioRecorder.is_recording (AtomicBool)
    command_sender, \* AudioRecorder.command_sender is Some
    thread_handle,  \* AudioRecorder.thread_handle is Some
    chan,           \* the mpsc channel of the current capture thread
    thread,         \* where the capture thread is in run_recording_thread
    cb,             \* where the audio data callback is
    transcriber,    \* TranscriberState: "none" or the loaded model id
    pc,             \* per caller thread: the step of the command it runs
    arg,            \* per caller: the model id a load_model call is loading
    taken,          \* per caller: the sample vector a transcribing call holds
    dropped,        \* history, per caller: the model its load_model call released
    lateAppend,     \* history: a callback appended after the flag was cleared
    lastRet,        \* history: the last command that returned, [cmd, res, out]
    ppText,         \* the transcript handed to PostProcessor::process
    ppOut,          \* the results of process: of ppText, then of the result before
    calls,          \* history: the number of commands invoked so far
    cased,          \* the results of fix_sentence_casing applied to ppText
    error_counts,   \* ErrorReporter.error_counts: fingerprint -> occurrences
    recent_errors,  \* ErrorReporter.recent_errors, the in-memory cache
    stored,         \* history: the reports put into the cache since the last clear
    reportCalls,    \* history: per report, the report calls since new or the last clear
    pending,        \* per caller: the report its report call has counted
    path,           \* the path handed to sanitize_path
    pathRes,        \* the results of sanitize_path applied to path
    clipboard,      \* TextInjector.clipboard: << >> (None) or <<text on the clipboard>>
    keyEvents,      \* history: the key events the injector synthesised
    model_id,       \* the model id handed to the model-id commands
    idRes,          \* per model-id command: << >> or the result it returned
    fileRequests,   \* TranscriptionRateLimiter: the timestamps stored for "transcribe_file"
    opened,         \* history: the paths File::open was given by the last transcribe_file
    fs,             \* the models directory: the temp path, the final path, the files
    dl,             \* per download_model call in flight: its step, its file, its offset
    license,        \* the row of the license table (id = 1)
    license_cache,  \* the CachedLicense file: << >> or <<the cached license>>
    today,          \* chrono::Utc::now(), in days
    trial_starts    \* history: the trial_started_at values start_trial recorded

limiterVars == <<requests, admitted, lastCheck>>

recorderVars ==
    <<recorder, samples, is_recording, command_sender, thread_handle, chan,
      thread, cb>>

appVars ==
    <<recRequests, recorder, samples, is_recording, command_sender,
      thread_handle, chan, thread, cb, transcriber, pc, arg, taken, dropped,
      lateAppend, lastRet>>

\* appVars without pc and lastRet
appRest ==
    <<recRequests, recorder, samples, is_recording, command_sender,
      thread_handle, chan, thread, cb, transcriber, arg, taken, dropped,
      lateAppend>>

postVars == <<ppText, ppOut>>

reporterVars == <<error_counts, recent_errors, stored, reportCalls, pending>>

injectorVars == <<clipboard, keyEvents>>

\* the state of the model-id commands
idVars == <<model_id, idRes>>

\* the state of transcribe_file
fileVars == <<fileRequests, opened>>

\* the state of download_model
dlVars == <<fs, dl>>

\* the state of the license commands
licVars == <<license, license_cache, today, trial_starts>>

extVars == <<idVars, fileVars, dlVars, licVars>>

auxVars == <<cased, reporterVars, path, pathRes, injectorVars, extVars>>

vars ==
    <<now, requests, admitted, lastCheck, recRequests, recorder, samples,
      is_recording, command_sender, thread_handle, chan, thread, cb,
      transcriber, pc, arg, taken, dropped, lateAppend, lastRet, ppText,
      ppOut, calls, cased, error_counts, recent_errors, stored, reportCalls,
      pending, path, pathRes, clipboard, keyEvents, model_id, idRes,
      fileRequests, opened, fs, dl, license, license_cache, today,
      trial_starts>>

----------------------------------------------------------------------------
(* Bounds of the model *)

LimN == 2           \* max_requests of the limiter of SpecLimiter
LimW == 3           \* window_secs of the limiter of SpecLimiter
MaxTime == 5        \* the clock of SpecLimiter stops here
MaxSamples == 2     \* the callbacks of one recording append at most this many frames
MaxCalls == 5       \* SpecRec and SpecModel issue at most this many commands
MaxAppCalls == 4    \* SpecApp issues at most this many commands
NumCallers == 2     \* the threads that run commands
MaxWords == 2       \* a transcript of SpecPost has at most this many phrases
MaxPasses == 2      \* SpecPost applies process at most this many times in a row
MaxChars == 4       \* a text of SpecCasing has at most this many characters
MaxDispatch == 2    \* SpecDispatch dispatches at most this many markers
MaxReports == 101   \* SpecReports makes the report without details at most this often
MaxOtherReports == 1 \* ... and the other reports at most this often in all
MaxPieces == 4      \* the paths of SpecPath are made of at most this many pieces
MaxKeyCalls == 2    \* SpecKeys makes at most this many injector calls
MaxDays == 8        \* the clock of SpecLicense stops at this day
MaxLicenseCalls == 4 \* SpecLicense invokes at most this many commands
NumDownloads == 2   \* download_model calls that can run at once
NumChunks == 2      \* the chunks of the response body
MaxDownloads == 3   \* SpecDownload starts at most this many downloads
MaxFileCalls == 51  \* SpecFile calls transcribe_file at most this often
MaxInjects == 2     \* SpecInject makes at most this many injections
MaxCacheCalls == 3  \* SpecCache issues at most this many reporter calls

Keys == {"start_recording", "transcribe_file"}
Callers == 1 .. NumCallers
Downloads == 1 .. NumDownloads
Models == {"tiny", "base"}
Frame == "frame"    \* one callback's resampled mono data

\* the reports made: category, severity and message as Display prints them,
\* details as with_details sets them (<< >> is None)
Reports ==
    {[category |-> "audio", severity |-> "ERROR", message |-> "no device",
      details |-> << >>],
     [category |-> "audio", severity |-> "ERROR", message |-> "no device",
      details |-> <<"cpal">>],
     [category |-> "model", severity |-> "WARN", message |-> "slow",
      details |-> << >>]}

\* ErrorReport::fingerprint
fingerprint(r) == r.category \o ":" \o r.severity \o ":" \o r.message

Fingerprints == {fingerprint(r) : r \in Reports}

----------------------------------------------------------------------------
(* RateLimiter (lib.rs 38-70) *)

\* timestamps.retain(|&t| now.duration_since(t) < self.window)
Retain(timestamps, t, window) ==
    SelectSeq(timestamps, LAMBDA s : t - s < window)

\* fault injection for C1: the comparison of check off by one (> for >=)
CheckAdmitsOffByOne(timestamps, t, maxRequests, window) ==
    ~ (Len(Retain(timestamps, t, window)) > maxRequests)

\* the branch taken by check: timestamps.len() >= self.max_requests => false
CheckAdmits(timestamps, t, maxRequests, window) ==
    ~ (Len(Retain(timestamps, t, window)) >= maxRequests)

\* the Vec stored for the key when check returns
CheckStore(timestamps, t, maxRequests, window) ==
    IF CheckAdmits(timestamps, t, maxRequests, window)
    THEN Append(Retain(timestamps, t, window), t)
    ELSE Retain(timestamps, t, window)

\* RateLimiter::new(LimN, LimW): an empty map; entry().or_insert_with(Vec::new)
\* makes a missing key read as the empty Vec
InitLimiter ==
    /\ requests = [k \in Keys |-> << >>]
    /\ admitted = [k \in Keys |-> << >>]
    /\ lastCheck = [key |-> "none", ok |-> FALSE]

\* RateLimiter::check(key): the whole body runs under the requests mutex, and
\* Instant::now() is read after the lock is taken, so calls from concurrent
\* threads are serialised and their clock readings are non-decreasing.
Check(key) ==
    /\ requests' = [requests EXCEPT
                      ![key] = CheckStore(@, now, LimN, LimW)]
    /\ admitted' = [admitted EXCEPT
                      ![key] = IF CheckAdmits(requests[key], now, LimN, LimW)
                               THEN Append(@, now) ELSE @]
    /\ lastCheck' = [key |-> key,
                     ok |-> CheckAdmits(requests[key], now, LimN, LimW)]
    /\ UNCHANGED <<now, appVars, postVars, calls, auxVars>>

\* the monotonic clock advances
TickBy(d) ==
    /\ now' = now + d
    /\ UNCHANGED <<limiterVars, appVars, postVars, calls, auxVars>>

----------------------------------------------------------------------------
(* Program constants *)

RecMaxRequests == 100   \* RateLimiter::new(100, 60), the recording limiter
RecWindow == 60
TrMaxRequests == 50     \* RateLimiter::new(50, 60), the transcription limiter
TrWindow == 60
TrialDays == 7          \* days_since_start >= 7, days_since_start < 7
GraceDays == 7          \* OFFLINE_GRACE_HOURS = 168
MaxFileMB == 500        \* 500 * 1024 * 1024 bytes

----------------------------------------------------------------------------
(* The state after run() has set up the managed state (lib.rs 1652-1671) *)

InitApp ==
    /\ recRequests = << >>
    /\ recorder = FALSE
    /\ samples = << >>
    /\ is_recording = FALSE
    /\ command_sender = FALSE
    /\ thread_handle = FALSE
    /\ chan = "empty"
    /\ thread = "none"
    /\ cb = "idle"
    /\ transcriber = "none"
    /\ pc = [c \in Callers |-> "idle"]
    /\ arg = [c \in Callers |-> "none"]
    /\ taken = [c \in Callers |-> << >>]
    /\ dropped = [c \in Callers |-> "none"]
    /\ lateAppend = FALSE
    /\ lastRet = [cmd |-> "none", res |-> "none", out |-> << >>]
    /\ calls = 0

\* the three mutexes: a command holds one from its lock() to its return
RecorderFree ==
    \A c \in Callers : pc[c] \notin {"stop_join", "cancel_join", "rt_join"}

TranscriberFree ==
    \A c \in Callers : pc[c] \notin {"rt_transcribing", "ta_transcribing"}

InjectorFree == \A c \in Callers : pc[c] # "injecting"

\* a command returns res (and out) to its caller
Return(c, cmd, res, out) ==
    /\ pc' = [pc EXCEPT ![c] = "idle"]
    /\ lastRet' = [cmd |-> cmd, res |-> res, out |-> out]

Goto(c, label) ==
    /\ pc' = [pc EXCEPT ![c] = label]
    /\ UNCHANGED lastRet

----------------------------------------------------------------------------
(* The capture thread and the audio data callback (audio.rs 114-258) *)

\* run_recording_thread returns Err before the stream plays: no input
\* device, no default config, unsupported format, build or play failure.
\* Nothing on these paths writes is_recording.
ThreadFail ==
    /\ thread = "started"
    /\ thread' = "exited"
    /\ UNCHANGED <<recRequests, recorder, samples, is_recording,
                   command_sender, thread_handle, chan, cb, transcriber, pc,
                   arg, taken, lastRet>>
    /\ UNCHANGED <<dropped, lateAppend>>

\* the stream is built and stream.play() succeeded; the thread enters its loop
ThreadPlay ==
    /\ thread = "started"
    /\ thread' = "polling"
    /\ UNCHANGED <<recRequests, recorder, samples, is_recording,
                   command_sender, thread_handle, chan, cb, transcriber, pc,
                   arg, taken, lastRet>>
    /\ UNCHANGED <<dropped, lateAppend>>

\* if let Ok(Stop) = cmd_rx.try_recv() { break }
ThreadPollStop ==
    /\ thread = "polling"
    /\ chan = "stop"
    /\ chan' = "empty"
    /\ thread' = "stopping"
    /\ UNCHANGED <<recRequests, recorder, samples, is_recording,
                   command_sender, thread_handle, cb, transcriber, pc, arg,
                   taken, lastRet>>
    /\ UNCHANGED <<dropped, lateAppend>>

\* if !is_recording.load() { break }
ThreadPollFlag ==
    /\ thread = "polling"
    /\ ~ is_recording
    /\ thread' = "stopping"
    /\ UNCHANGED <<recRequests, recorder, samples, is_recording,
                   command_sender, thread_handle, chan, cb, transcriber, pc,
                   arg, taken, lastRet>>
    /\ UNCHANGED <<dropped, lateAppend>>

\* fault injection for C25: dropping the stream never returns
StreamDropBlocks == FALSE

\* the stream is dropped when run_recording_thread returns. Dropping a cpal
\* Stream stops the device and waits for a data callback that is running.
StreamDropped == cb = "idle"

ThreadDrop ==
    /\ thread = "stopping"
    /\ StreamDropped
    /\ thread' = "exited"
    /\ UNCHANGED <<recRequests, recorder, samples, is_recording,
                   command_sender, thread_handle, chan, cb, transcriber, pc,
                   arg, taken, lastRet>>
    /\ UNCHANGED <<dropped, lateAppend>>

\* the data callback: if is_recording.load() { process_audio_data(..) }
CallbackCheck ==
    /\ thread \in {"polling", "stopping"}
    /\ cb = "idle"
    /\ is_recording
    /\ Len(samples) < MaxSamples
    /\ cb' = "checked"
    /\ UNCHANGED <<recRequests, recorder, samples, is_recording,
                   command_sender, thread_handle, chan, thread, transcriber,
                   pc, arg, taken, lastRet>>
    /\ UNCHANGED <<dropped, lateAppend>>

\* process_audio_data: samples.lock().unwrap().extend(resampled)
CallbackAppend ==
    /\ cb = "checked"
    /\ samples' = Append(samples, Frame)
    /\ cb' = "idle"
    /\ lateAppend' = (lateAppend \/ ~ is_recording)
    /\ UNCHANGED <<recRequests, recorder, is_recording, command_sender,
                   thread_handle, chan, thread, transcriber, pc, arg, taken,
                   lastRet>>
    /\ UNCHANGED dropped

----------------------------------------------------------------------------
(* Recording commands (lib.rs 245-312) over AudioRecorder (audio.rs 26-112) *)

\* fault injection for C2: the early return after a failed check is missing
StartRecordingNoReturn(c) ==
    /\ pc[c] = "idle"
    /\ recRequests' = CheckStore(recRequests, now, RecMaxRequests, RecWindow)
    /\ Goto(c, "start_lock")
    /\ UNCHANGED <<recorder, samples, is_recording, command_sender,
                   thread_handle, chan, thread, cb, transcriber, arg, taken>>
    /\ UNCHANGED <<dropped, lateAppend>>

\* start_recording up to the rate limiter check
StartRecording(c) ==
    /\ pc[c] = "idle"
    /\ recRequests' = CheckStore(recRequests, now, RecMaxRequests, RecWindow)
    /\ IF ~ CheckAdmits(recRequests, now, RecMaxRequests, RecWindow)
       THEN Return(c, "start_recording", "Err: Rate limit exceeded", << >>)
       ELSE Goto(c, "start_lock")
    /\ UNCHANGED <<recorder, samples, is_recording, command_sender,
                   thread_handle, chan, thread, cb, transcriber, arg, taken>>
    /\ UNCHANGED <<dropped, lateAppend>>

\* fault injection for C6: the buffer is cleared before the flag is tested
StartLockedClearsFirst(c) ==
    /\ pc[c] = "start_lock"
    /\ RecorderFree
    /\ recorder' = TRUE
    /\ samples' = << >>
    /\ IF is_recording
       THEN /\ Return(c, "start_recording", "Err: Already recording", << >>)
            /\ UNCHANGED <<is_recording, command_sender, thread_handle, chan,
                           thread, lateAppend>>
       ELSE /\ is_recording' = TRUE
            /\ lateAppend' = FALSE
            /\ chan' = "empty"
            /\ thread' = "started"
            /\ command_sender' = TRUE
            /\ thread_handle' = TRUE
            /\ Return(c, "start_recording", "Ok", << >>)
    /\ UNCHANGED <<recRequests, cb, transcriber, arg, taken>>
    /\ UNCHANGED dropped

\* start_recording from recorder.0.lock(): AudioRecorder::new if the Option
\* is None, then AudioRecorder::start_recording
StartLocked(c) ==
    /\ pc[c] = "start_lock"
    /\ RecorderFree
    /\ recorder' = TRUE
    /\ IF is_recording
       THEN /\ Return(c, "start_recording", "Err: Already recording", << >>)
            /\ UNCHANGED <<samples, is_recording, command_sender,
                           thread_handle, chan, thread, lateAppend>>
       ELSE /\ samples' = << >>
            /\ lateAppend' = FALSE
            /\ is_recording' = TRUE
            /\ chan' = "empty"
            /\ thread' = "started"
            /\ command_sender' = TRUE
            /\ thread_handle' = TRUE
            /\ Return(c, "start_recording", "Ok", << >>)
    /\ UNCHANGED <<recRequests, cb, transcriber, arg, taken>>
    /\ UNCHANGED dropped

\* fault injection for C24: the flag is left as it is
SignalStopKeepsFlag ==
    /\ is_recording' = is_recording
    /\ chan' = IF command_sender THEN "stop" ELSE chan
    /\ command_sender' = FALSE

\* the head of AudioRecorder::stop_recording and cancel_recording: clear the
\* flag, take the sender and send Stop (a send to an exited thread fails and
\* is ignored)
SignalStop ==
    /\ is_recording' = FALSE
    /\ chan' = IF command_sender THEN "stop" ELSE chan
    /\ command_sender' = FALSE

\* fault injection for C4: stop and cancel return without joining the thread
JoinedNoWait == TRUE

\* if let Some(handle) = self.thread_handle.take() { handle.join() }
Joined == thread_handle => thread = "exited"

Join ==
    /\ Joined
    /\ thread_handle' = FALSE
    /\ thread' = IF thread = "exited" THEN "none" ELSE thread
    /\ chan' = "empty"

\* stop_recording, cancel_recording and record_and_transcribe up to the join
StopBegin(c, cmd, label) ==
    /\ pc[c] = "idle"
    /\ RecorderFree
    /\ IF ~ recorder
       THEN /\ Return(c, cmd, IF cmd = "cancel_recording" THEN "Ok"
                              ELSE "Err: No recorder initialized", << >>)
            /\ UNCHANGED <<is_recording, chan, command_sender>>
       ELSE /\ SignalStop
            /\ Goto(c, label)
    /\ UNCHANGED <<recRequests, recorder, samples, thread_handle, thread, cb,
                   transcriber, arg, taken>>
    /\ UNCHANGED <<dropped, lateAppend>>

\* fault injection for C5: the emptiness test of stop_recording is missing
StopResultAlwaysOk == "Ok"

\* the result of AudioRecorder::stop_recording once the thread is joined
StopResult == IF samples = << >> THEN "Err: No audio recorded" ELSE "Ok"

StopEnd(c) ==
    /\ pc[c] = "stop_join"
    /\ Join
    /\ Return(c, "stop_recording", StopResult,
              IF StopResult = "Ok" THEN samples ELSE << >>)
    /\ UNCHANGED <<recRequests, recorder, samples, is_recording,
                   command_sender, cb, transcriber, arg, taken>>
    /\ UNCHANGED <<dropped, lateAppend>>

CancelEnd(c) ==
    /\ pc[c] = "cancel_join"
    /\ Join
    /\ samples' = << >>
    /\ Return(c, "cancel_recording", "Ok", << >>)
    /\ UNCHANGED <<recRequests, recorder, is_recording, command_sender, cb,
                   transcriber, arg, taken>>
    /\ UNCHANGED <<dropped, lateAppend>>

----------------------------------------------------------------------------
(* Transcription commands (lib.rs 365-453) *)

\* record_and_transcribe: rec.stop_recording()? and the recorder guard dropped
RtJoin(c) ==
    /\ pc[c] = "rt_join"
    /\ Join
    /\ IF StopResult = "Ok"
       THEN /\ taken' = [taken EXCEPT ![c] = samples]
            /\ Goto(c, "rt_lock")
       ELSE /\ Return(c, "record_and_transcribe", StopResult, << >>)
            /\ UNCHANGED taken
    /\ UNCHANGED <<recRequests, recorder, samples, is_recording,
                   command_sender, cb, transcriber, arg>>
    /\ UNCHANGED <<dropped, lateAppend>>

\* transcriber.0.lock() and the Option match, in record_and_transcribe and
\* in transcribe_audio
LockTranscriber(c, cmd, label, audio) ==
    /\ TranscriberFree
    /\ IF transcriber = "none"
       THEN /\ Return(c, cmd, "Err: No model loaded", << >>)
            /\ taken' = [taken EXCEPT ![c] = << >>]
       ELSE /\ Goto(c, label)
            /\ taken' = [taken EXCEPT ![c] = audio]
    /\ UNCHANGED <<recRequests, recorder, samples, is_recording,
                   command_sender, thread_handle, chan, thread, cb,
                   transcriber, arg>>
    /\ UNCHANGED <<dropped, lateAppend>>

RtLock(c) ==
    /\ pc[c] = "rt_lock"
    /\ LockTranscriber(c, "record_and_transcribe", "rt_transcribing", taken[c])

TranscribeAudio(c, audio) ==
    /\ pc[c] = "idle"
    /\ LockTranscriber(c, "transcribe_audio", "ta_transcribing", audio)

\* Transcriber::transcribe returns: the text of the loaded model, or an error
\* (empty input, or a failure of the inference)
TranscribeEnd(c, cmd, label) ==
    /\ pc[c] = label
    /\ \E res \in IF taken[c] = << >>
                  THEN {"Err: No audio samples to transcribe"}
                  ELSE {"Ok", "Err: Failed to run inference"} :
          Return(c, cmd, res, IF res = "Ok" THEN <<transcriber>> ELSE << >>)
    /\ taken' = [taken EXCEPT ![c] = << >>]
    /\ UNCHANGED <<recRequests, recorder, samples, is_recording,
                   command_sender, thread_handle, chan, thread, cb,
                   transcriber, arg>>
    /\ UNCHANGED <<dropped, lateAppend>>

\* load_model up to the release of the first guard: the path check, then
\* *transcriber_guard = None
LoadModel(c, m, exists) ==
    /\ pc[c] = "idle"
    /\ IF ~ exists
       THEN /\ Return(c, "load_model", "Err: Model is not downloaded", << >>)
            /\ UNCHANGED <<transcriber, arg, dropped>>
       ELSE /\ TranscriberFree
            /\ transcriber' = "none"
            /\ arg' = [arg EXCEPT ![c] = m]
            /\ dropped' = [dropped EXCEPT ![c] = transcriber]
            /\ Goto(c, "load_new")
    /\ UNCHANGED <<recRequests, recorder, samples, is_recording,
                   command_sender, thread_handle, chan, thread, cb, taken>>
    /\ UNCHANGED lateAppend

\* Transcriber::new(model_path, language), outside any lock
LoadNew(c, ok) ==
    /\ pc[c] = "load_new"
    /\ IF ok
       THEN /\ Goto(c, "load_store")
            /\ UNCHANGED <<arg, dropped>>
       ELSE /\ Return(c, "load_model", "Err: Failed to load Whisper model", << >>)
            /\ arg' = [arg EXCEPT ![c] = "none"]
            /\ dropped' = [dropped EXCEPT ![c] = "none"]
    /\ UNCHANGED <<recRequests, recorder, samples, is_recording,
                   command_sender, thread_handle, chan, thread, cb,
                   transcriber, taken>>
    /\ UNCHANGED lateAppend

\* the second lock of load_model: *transcriber_guard = Some(new_transcriber)
LoadStore(c) ==
    /\ pc[c] = "load_store"
    /\ TranscriberFree
    /\ transcriber' = arg[c]
    /\ arg' = [arg EXCEPT ![c] = "none"]
    /\ dropped' = [dropped EXCEPT ![c] = "none"]
    /\ Return(c, "load_model", "Ok", << >>)
    /\ UNCHANGED <<recRequests, recorder, samples, is_recording,
                   command_sender, thread_handle, chan, thread, cb, taken>>
    /\ UNCHANGED lateAppend

UnloadModel(c) ==
    /\ pc[c] = "idle"
    /\ TranscriberFree
    /\ transcriber' = "none"
    /\ Return(c, "unload_model", "Ok", << >>)
    /\ UNCHANGED <<recRequests, recorder, samples, is_recording,
                   command_sender, thread_handle, chan, thread, cb, arg,
                   taken>>
    /\ UNCHANGED <<dropped, lateAppend>>

----------------------------------------------------------------------------
(* Text injection command (lib.rs 762-776) *)

\* inject_text up to injector.0.lock(): an empty sanitised text is an error
InjectText(c, empty) ==
    /\ pc[c] = "idle"
    /\ IF empty
       THEN Return(c, "inject_text", "Err: No text to inject", << >>)
       ELSE InjectorFree /\ Goto(c, "injecting")
    /\ UNCHANGED <<recRequests, recorder, samples, is_recording,
                   command_sender, thread_handle, chan, thread, cb,
                   transcriber, arg, taken>>
    /\ UNCHANGED <<dropped, lateAppend>>

\* TextInjector::inject_text returns
InjectEnd(c, ok) ==
    /\ pc[c] = "injecting"
    /\ Return(c, "inject_text",
              IF ok THEN "Ok" ELSE "Err: Failed to inject text", << >>)
    /\ UNCHANGED <<recRequests, recorder, samples, is_recording,
                   command_sender, thread_handle, chan, thread, cb,
                   transcriber, arg, taken>>
    /\ UNCHANGED <<dropped, lateAppend>>

----------------------------------------------------------------------------
(* Characters and strings (the ASCII part of Rust's char and str methods) *)

Lowers == "abcdefghijklmnopqrstuvwxyz"
Uppers == "ABCDEFGHIJKLMNOPQRSTUVWXYZ"
Digits == "0123456789"

CharsOf(s) == {SubSeq(s, i, i) : i \in 1 .. Len(s)}

LowerSet == CharsOf(Lowers)
UpperSet == CharsOf(Uppers)
DigitSet == CharsOf(Digits)

ToLowerMap ==
    [c \in UpperSet |->
        LET i == CHOOSE j \in 1 .. Len(Uppers) : SubSeq(Uppers, j, j) = c
        IN  SubSeq(Lowers, i, i)]

ToUpperMap ==
    [c \in LowerSet |->
        LET i == CHOOSE j \in 1 .. Len(Lowers) : SubSeq(Lowers, j, j) = c
        IN  SubSeq(Uppers, i, i)]

LowerChar(c) == IF c \in UpperSet THEN ToLowerMap[c] ELSE c
UpperChar(c) == IF c \in LowerSet THEN ToUpperMap[c] ELSE c

is_alphabetic(c) == c \in LowerSet \/ c \in UpperSet
is_alphanumeric(c) == is_alphabetic(c) \/ c \in DigitSet
is_whitespace(c) == c \in {" ", "\n", "\t"}

CharAt(s, i) == SubSeq(s, i, i)
From(s, i) == SubSeq(s, i, Len(s))

RECURSIVE to_lowercase(_)
to_lowercase(s) ==
    IF s = "" THEN "" ELSE LowerChar(CharAt(s, 1)) \o to_lowercase(From(s, 2))

RECURSIVE to_uppercase(_)
to_uppercase(s) ==
    IF s = "" THEN "" ELSE UpperChar(CharAt(s, 1)) \o to_uppercase(From(s, 2))

\* first.to_uppercase() followed by the rest of the word unchanged
CapFirst(w) == IF w = "" THEN "" ELSE UpperChar(CharAt(w, 1)) \o From(w, 2)

\* first.to_uppercase() followed by the rest of the word in lower case
Capitalized(w) ==
    IF w = "" THEN "" ELSE UpperChar(CharAt(w, 1)) \o to_lowercase(From(w, 2))

\* the end (exclusive) of the run of characters from i that are outside stop
RECURSIVE RunEnd(_, _, _)
RunEnd(s, i, stop) ==
    IF i > Len(s) \/ CharAt(s, i) \in stop THEN i ELSE RunEnd(s, i + 1, stop)

Whitespace == {" ", "\n", "\t"}

\* str::split_whitespace
RECURSIVE split_whitespace(_)
split_whitespace(s) ==
    IF s = "" THEN << >>
    ELSE IF is_whitespace(CharAt(s, 1)) THEN split_whitespace(From(s, 2))
    ELSE LET e == RunEnd(s, 1, Whitespace)
         IN  <<SubSeq(s, 1, e - 1)>> \o split_whitespace(From(s, e))

\* str::split('\n')
RECURSIVE split_lines(_)
split_lines(s) ==
    LET e == RunEnd(s, 1, {"\n"})
    IN  IF e > Len(s) THEN <<s>>
        ELSE <<SubSeq(s, 1, e - 1)>> \o split_lines(From(s, e + 1))

\* [String]::join(sep)
RECURSIVE join(_, _)
join(ws, sep) ==
    IF ws = << >> THEN ""
    ELSE IF Len(ws) = 1 THEN ws[1]
    ELSE ws[1] \o sep \o join(Tail(ws), sep)

\* str::replace(from, to): the non-overlapping occurrences, left to right
RECURSIVE replace(_, _, _)
replace(s, from, to) ==
    IF Len(s) < Len(from) THEN s
    ELSE IF SubSeq(s, 1, Len(from)) = from
         THEN to \o replace(From(s, Len(from) + 1), from, to)
         ELSE CharAt(s, 1) \o replace(From(s, 2), from, to)

\* str::contains(sub)
Contains(s, sub) ==
    \E i \in 1 .. Len(s) - Len(sub) + 1 : SubSeq(s, i, i + Len(sub) - 1) = sub

\* str::starts_with(prefix)
starts_with(s, prefix) ==
    Len(s) >= Len(prefix) /\ SubSeq(s, 1, Len(prefix)) = prefix

\* str::trim
RECURSIVE trim_start(_)
trim_start(s) ==
    IF s # "" /\ is_whitespace(CharAt(s, 1)) THEN trim_start(From(s, 2)) ELSE s

RECURSIVE trim_end(_)
trim_end(s) ==
    IF s # "" /\ is_whitespace(CharAt(s, Len(s)))
    THEN trim_end(SubSeq(s, 1, Len(s) - 1)) ELSE s

trim(s) == trim_end(trim_start(s))

----------------------------------------------------------------------------
(* Regular expressions of the regex crate: leftmost-first matching, (?i),   *)
(* \b, \s, \w on ASCII text                                                 *)

Lit(w) == [k |-> "lit", s |-> w]            \* a literal, written in lower case
Cls(c) == [k |-> "cls", c |-> c]            \* a character class
B == [k |-> "wb"]                           \* \b
Eos == [k |-> "eos"]                        \* $
Cat(rs) == [k |-> "seq", rs |-> rs]
Alt(rs) == [k |-> "alt", rs |-> rs]
Opt(r) == [k |-> "opt", r |-> r]            \* r?
Star(r) == [k |-> "star", r |-> r]          \* r*
Plus(r) == [k |-> "plus", r |-> r]          \* r+
LazyPlus(r) == [k |-> "lazyplus", r |-> r]  \* r+?
Rep(r, lo, hi) == [k |-> "rep", r |-> r, lo |-> lo, hi |-> hi]  \* r{lo,hi}
Cap(n, r) == [k |-> "cap", n |-> n, r |-> r]                   \* group n

\* the classes of the patterns, under (?i)
InClass(cl, c) ==
    CASE cl = "s" -> is_whitespace(c)                          \* \s
      [] cl = "w" -> is_alphanumeric(c) \/ c = "_"             \* \w
      [] cl = "az" -> is_alphabetic(c)                         \* [a-z]
      [] cl = "ident" -> is_alphanumeric(c) \/ c \in {"_", "-"}  \* [a-z0-9_-]
      [] cl = "punct" -> c \in {".", ",", "!", "?"}            \* [.,!?]
      [] cl = "any" -> c # "\n"                                \* .

IsWordChar(s, i) == i >= 1 /\ i <= Len(s) /\ InClass("w", CharAt(s, i))

\* \b at position i: exactly one of the characters before and at i is \w
WordBoundary(s, i) == IsWordChar(s, i - 1) # IsWordChar(s, i)

NoCaps == [n \in 1 .. 3 |-> <<0, 0>>]

RECURSIVE Match(_, _, _)
RECURSIVE MatchAll(_, _, _, _)
RECURSIVE MatchSeq(_, _, _, _)
RECURSIVE SeqAll(_, _, _, _, _)
RECURSIVE AltAll(_, _, _, _)
RECURSIVE LazyAll(_, _, _, _)

\* the states [pos, caps] in which a match of re begun in state st can end,
\* in the order in which a backtracking matcher tries them; the first is the
\* match the regex crate reports
Match(re, s, st) ==
    CASE re.k = "lit" ->
            IF /\ st.pos + Len(re.s) - 1 <= Len(s)
               /\ to_lowercase(SubSeq(s, st.pos, st.pos + Len(re.s) - 1)) = re.s
            THEN <<[st EXCEPT !.pos = @ + Len(re.s)]>>
            ELSE << >>
      [] re.k = "cls" ->
            IF st.pos <= Len(s) /\ InClass(re.c, CharAt(s, st.pos))
            THEN <<[st EXCEPT !.pos = @ + 1]>>
            ELSE << >>
      [] re.k = "wb" -> IF WordBoundary(s, st.pos) THEN <<st>> ELSE << >>
      [] re.k = "eos" -> IF st.pos = Len(s) + 1 THEN <<st>> ELSE << >>
      [] re.k = "seq" -> MatchSeq(re.rs, 1, s, st)
      [] re.k = "alt" -> AltAll(re.rs, 1, s, st)
      [] re.k = "opt" -> Match(re.r, s, st) \o <<st>>
      [] re.k = "star" ->
            MatchAll(re, s, SelectSeq(Match(re.r, s, st),
                                      LAMBDA m : m.pos > st.pos), 1) \o <<st>>
      [] re.k = "plus" -> MatchAll(Star(re.r), s, Match(re.r, s, st), 1)
      [] re.k = "lazyplus" -> LazyAll(re, s, Match(re.r, s, st), 1)
      [] re.k = "rep" ->
            IF re.hi = 0 THEN <<st>>
            ELSE MatchAll(Rep(re.r, IF re.lo > 0 THEN re.lo - 1 ELSE 0, re.hi - 1),
                          s, Match(re.r, s, st), 1)
                 \o (IF re.lo = 0 THEN <<st>> ELSE << >>)
      [] re.k = "cap" ->
            LET ms == Match(re.r, s, st)
            IN  [j \in 1 .. Len(ms) |->
                    [ms[j] EXCEPT !.caps[re.n] = <<st.pos, ms[j].pos>>]]

MatchAll(re, s, sts, j) ==
    IF j > Len(sts) THEN << >>
    ELSE Match(re, s, sts[j]) \o MatchAll(re, s, sts, j + 1)

MatchSeq(rs, i, s, st) ==
    IF i > Len(rs) THEN <<st>>
    ELSE SeqAll(rs, i + 1, s, Match(rs[i], s, st), 1)

SeqAll(rs, i, s, sts, j) ==
    IF j > Len(sts) THEN << >>
    ELSE MatchSeq(rs, i, s, sts[j]) \o SeqAll(rs, i, s, sts, j + 1)

AltAll(rs, i, s, st) ==
    IF i > Len(rs) THEN << >>
    ELSE Match(rs[i], s, st) \o AltAll(rs, i + 1, s, st)

LazyAll(re, s, sts, j) ==
    IF j > Len(sts) THEN << >>
    ELSE <<sts[j]>> \o Match(re, s, sts[j]) \o LazyAll(re, s, sts, j + 1)

\* caps[n] of a match m in text s
Group(s, m, n) == SubSeq(s, m.caps[n][1], m.caps[n][2] - 1)

----------------------------------------------------------------------------
(* Case conversion helpers (post_process.rs 688-740) *)

RECURSIVE MapWords(_, _)
MapWords(ws, lower) ==
    IF ws = << >> THEN << >>
    ELSE <<IF lower THEN to_lowercase(ws[1]) ELSE to_uppercase(ws[1])>>
         \o MapWords(Tail(ws), lower)

RECURSIVE CapitalizedWords(_)
CapitalizedWords(ws) ==
    IF ws = << >> THEN ""
    ELSE Capitalized(ws[1]) \o CapitalizedWords(Tail(ws))

to_camel_case(text) ==
    LET words == split_whitespace(text)
    IN  IF words = << >> THEN ""
        ELSE to_lowercase(words[1]) \o CapitalizedWords(Tail(words))

to_pascal_case(text) == CapitalizedWords(split_whitespace(text))

to_snake_case(text) == join(MapWords(split_whitespace(text), TRUE), "_")

to_kebab_case(text) == join(MapWords(split_whitespace(text), TRUE), "-")

to_constant_case(text) == join(MapWords(split_whitespace(text), FALSE), "_")

----------------------------------------------------------------------------
(* The patterns (post_process.rs 14-217) and their replacements *)

W == Plus(Cls("s"))         \* \s+
Ws == Star(Cls("s"))        \* \s*
Punct == Opt(Cls("punct"))  \* [.,!?]?

\* (w1|w2|...)
Words(ws) == Alt([i \in 1 .. Len(ws) |-> Lit(ws[i])])

\* w1\s+w2\s+...
Ph(ws) ==
    Cat([i \in 1 .. 2 * Len(ws) - 1 |->
            IF i % 2 = 1 THEN Lit(ws[(i + 1) \div 2]) ELSE W])

\* w1\s*w2\s*...
PhO(ws) ==
    Cat([i \in 1 .. 2 * Len(ws) - 1 |->
            IF i % 2 = 1 THEN Lit(ws[(i + 1) \div 2]) ELSE Ws])

\* [a-z]+(?:\s+[a-z]+)*
Name == Cat(<<Plus(Cls("az")), Star(Cat(<<W, Plus(Cls("az"))>>))>>)

\* [a-z][a-z0-9_-]*
Ident == Cat(<<Cls("az"), Star(Cls("ident"))>>)

\* \b inner \b
Bounded(inner) == Cat(<<B, inner, B>>)

\* \b inner \b[.,!?]?
Action(inner) == Cat(<<B, inner, B, Punct>>)

Rule(name, re, kind, text) ==
    [name |-> name, re |-> re, kind |-> kind, text |-> text]

\* the extensions of FILE_PATH_PATTERN
PathExts ==
    <<"js", "ts", "tsx", "jsx", "rs", "py", "go", "rb", "java", "cpp", "c",
      "h", "hpp", "css", "scss", "html", "json", "yaml", "yml", "toml", "md",
      "txt", "sh", "bash", "sql", "vue", "svelte", "astro">>

\* the extensions of STANDALONE_FILE_MENTION_PATTERN
StandaloneExts ==
    <<"js", "ts", "tsx", "jsx", "rs", "py", "go", "rb", "java", "cpp", "c",
      "h", "hpp", "css", "scss", "html", "json", "yaml", "yml", "toml", "md",
      "txt", "sh", "sql", "vue", "svelte", "astro", "env", "config", "lock",
      "gitignore", "makefile">>

\* the extensions of FILE_MENTION_PATTERN
MentionExts ==
    <<"js", "ts", "tsx", "jsx", "rs", "py", "go", "rb", "java", "cpp", "c",
      "h", "hpp", "css", "scss", "html", "json", "yaml", "yml", "toml", "md",
      "txt", "sh", "sql", "vue", "svelte", "astro", "env", "config", "lock",
      "gitignore", "dockerignore", "makefile">>

\* the prepositions of FILE_MENTION_PATTERN ("look at" has a literal space)
MentionPrepositions ==
    <<"in", "the", "file", "from", "to", "open", "edit", "fix", "update",
      "check", "see", "look at", "modify", "change", "review", "refactor",
      "at", "mention">>

\* FILE_EXTENSIONS, consulted by the FILE_WITH_PERIOD_PATTERN replacement
FILE_EXTENSIONS ==
    {"js", "ts", "tsx", "jsx", "rs", "py", "go", "rb", "java", "cpp", "c",
     "h", "hpp", "css", "scss", "html", "json", "yaml", "yml", "toml", "md",
     "txt", "sh", "bash", "sql", "vue", "svelte", "astro", "env", "lock"}

\* PostProcessor.file_extensions, consulted by process_standalone_dots
file_extensions ==
    {"js", "ts", "tsx", "jsx", "rs", "py", "go", "rb", "java", "cpp", "c",
     "h", "hpp", "css", "scss", "sass", "less", "html", "htm", "json", "yaml",
     "yml", "toml", "xml", "md", "txt", "sh", "bash", "zsh", "fish", "sql",
     "vue", "svelte", "astro", "php", "swift", "kt", "scala", "ex", "exs",
     "erl", "hs", "ml", "fs", "clj", "lisp", "r", "jl", "lua", "pl", "pm"}

\* PostProcessor.keywords: every keyword maps to itself
keywords ==
    {"if", "else", "for", "while", "do", "switch", "case", "break", "continue",
     "return", "function", "const", "let", "var", "class", "struct", "enum",
     "interface", "type", "import", "export", "from", "as", "default", "async",
     "await", "try", "catch", "finally", "throw", "new", "this", "self", "super",
     "public", "private", "protected", "static", "final", "abstract", "virtual",
     "override", "implements", "extends", "null", "undefined", "none", "nil",
     "true", "false", "and", "or", "not", "in", "is", "typeof", "instanceof",
     "void", "int", "float", "double", "string", "bool", "boolean", "char",
     "array", "list", "map", "set", "dict", "tuple", "option", "result",
     "println", "print", "console", "log", "debug", "info", "warn", "error"}

\* the alternatives of ABBREV_PATTERN
Abbreviations ==
    <<"http", "https", "api", "url", "html", "css", "json", "xml", "sql",
      "gui", "cli", "sdk", "ide", "dom", "ajax", "rest", "crud", "orm", "mvc",
      "jwt", "oauth", "ssr", "csr", "pwa", "spa", "seo", "cdn", "dns", "ssh",
      "ssl", "tls", "ftp", "tcp", "udp", "ip", "os", "cpu", "gpu", "ram",
      "ssd", "hdd", "usb", "pdf", "csv", "svg", "png", "jpg", "gif", "mp3",
      "mp4", "avi", "exe", "dll", "npm", "yarn", "pnpm", "git", "svn", "aws",
      "gcp", "env">>

\* COMMAND_ALL_CAPS and COMMAND_NO_CAPS: \b<w>\s*caps\s+(.+?)(?:\s+end\s*caps|\s*$)
CapsSpan(w) ==
    Cat(<<B, PhO(<<w, "caps">>), W, Cap(1, LazyPlus(Cls("any"))),
          Alt(<<Cat(<<W, PhO(<<"end", "caps">>)>>), Cat(<<Ws, Eos>>)>>)>>)

\* the action commands insert \s+ <what>
Insert(what) == Bounded(Cat(<<Lit("insert"), W, what>>))

\* <w>(\s*sign)?
OptSign(w) == Cat(<<Lit(w), Opt(Cat(<<Ws, Lit("sign")>>))>>)

\* <w>(\s+(o1|o2|o3))?
OptObject(w, objs) == Cat(<<Lit(w), Opt(Cat(<<W, Words(objs)>>))>>)

\* the replace_all calls of process_voice_commands, in order
VoiceCommandRules ==
    <<Rule("COMMAND_ALL_CAPS", CapsSpan("all"), "upper1", ""),
      Rule("COMMAND_NO_CAPS", CapsSpan("no"), "lower1", ""),
      Rule("COMMAND_CAP",
           Cat(<<B, Lit("cap"), W, Cap(1, Plus(Cls("w")))>>), "capfirst1", ""),
      Rule("NEW_PARAGRAPH_PATTERN",
           Cat(<<B, PhO(<<"new", "paragraph">>), B, Punct>>), "text", "\n\n"),
      Rule("NEWLINE_PATTERN",
           Cat(<<B, PhO(<<"new", "line">>), B, Punct>>), "text", "\n"),
      Rule("COMMAND_ELLIPSIS", Insert(Lit("ellipsis")), "text", "..."),
      Rule("COMMAND_QUESTION_MARK",
           Insert(PhO(<<"question", "mark">>)), "text", "?"),
      Rule("COMMAND_EXCLAMATION",
           Insert(Alt(<<Cat(<<Lit("exclamation"), Ws,
                              Opt(Words(<<"mark", "point">>))>>),
                        Lit("bang")>>)), "text", "!"),
      Rule("COMMAND_OPEN_QUOTE",
           Bounded(Cat(<<Lit("open"), W, Opt(Cat(<<Lit("double"), W>>)),
                         Lit("quote")>>)), "text", "\""),
      Rule("COMMAND_CLOSE_QUOTE",
           Bounded(Cat(<<Lit("close"), W, Opt(Cat(<<Lit("double"), W>>)),
                         Lit("quote")>>)), "text", "\""),
      Rule("COMMAND_SINGLE_QUOTE",
           Insert(Ph(<<"single", "quote">>)), "text", "'"),
      Rule("COMMAND_QUOTE",
           Insert(Cat(<<Opt(Cat(<<Lit("double"), W>>)), Lit("quote")>>)),
           "text", "\""),
      Rule("COMMAND_APOSTROPHE", Insert(Lit("apostrophe")), "text", "'"),
      Rule("COMMAND_COMMA", Insert(Lit("comma")), "text", ","),
      Rule("COMMAND_PERIOD",
           Insert(Alt(<<Lit("period"), Ph(<<"full", "stop">>)>>)), "text", "."),
      Rule("COMMAND_AMPERSAND", Insert(Lit("ampersand")), "text", "&"),
      Rule("COMMAND_AT_SIGN", Insert(PhO(<<"at", "sign">>)), "text", "@"),
      Rule("COMMAND_HASH",
           Insert(Alt(<<Lit("hash"), Lit("hashtag"), PhO(<<"pound", "sign">>),
                        PhO(<<"number", "sign">>)>>)), "text", "#"),
      Rule("COMMAND_PERCENT", Insert(OptSign("percent")), "text", "%"),
      Rule("COMMAND_DOLLAR", Insert(OptSign("dollar")), "text", "$"),
      Rule("COMMAND_ASTERISK",
           Insert(Words(<<"asterisk", "star">>)), "text", "*"),
      Rule("COMMAND_PLUS", Insert(OptSign("plus")), "text", "+"),
      Rule("COMMAND_MINUS", Insert(OptSign("minus")), "text", "-"),
      Rule("COMMAND_TILDE", Insert(Lit("tilde")), "text", "~"),
      Rule("COMMAND_CARET", Insert(Lit("caret")), "text", "^"),
      Rule("COMMAND_PIPE",
           Insert(Alt(<<Lit("pipe"), PhO(<<"vertical", "bar">>)>>)),
           "text", "|"),
      Rule("COMMAND_LESS_THAN",
           Insert(Alt(<<PhO(<<"less", "than">>),
                        Cat(<<PhO(<<"left", "angle">>),
                              Opt(Cat(<<Ws, Lit("bracket")>>))>>)>>)),
           "text", "<"),
      Rule("COMMAND_GREATER_THAN",
           Insert(Alt(<<PhO(<<"greater", "than">>),
                        Cat(<<PhO(<<"right", "angle">>),
                              Opt(Cat(<<Ws, Lit("bracket")>>))>>)>>)),
           "text", ">"),
      Rule("COMMAND_NO_SPACE", Bounded(PhO(<<"no", "space">>)), "text", ""),
      Rule("COMMAND_SPACE", Insert(Lit("space")), "text", " "),
      Rule("COMMAND_DELETE_THAT",
           Action(Alt(<<Ph(<<"delete", "that">>), Ph(<<"scratch", "that">>),
                        Ph(<<"remove", "that">>), Ph(<<"delete", "last">>),
                        Ph(<<"scratch", "last">>)>>)),
           "text", "[[DELETE_LAST]]"),
      Rule("COMMAND_UNDO",
           Action(OptObject("undo", <<"that", "last", "it">>)),
           "text", "[[UNDO]]"),
      Rule("COMMAND_REDO",
           Action(OptObject("redo", <<"that", "last", "it">>)),
           "text", "[[REDO]]"),
      Rule("COMMAND_SELECT_ALL",
           Action(Cat(<<Ph(<<"select", "all">>),
                        Opt(Cat(<<W, Lit("text")>>))>>)),
           "text", "[[SELECT_ALL]]"),
      Rule("COMMAND_COPY_THAT",
           Action(Cat(<<Lit("copy"), W,
                        Words(<<"that", "this", "selection", "it">>)>>)),
           "text", "[[COPY]]"),
      Rule("COMMAND_CUT_THAT",
           Action(Cat(<<Lit("cut"), W,
                        Words(<<"that", "this", "selection", "it">>)>>)),
           "text", "[[CUT]]"),
      Rule("COMMAND_PASTE_THAT",
           Action(OptObject("paste", <<"that", "here", "it">>)),
           "text", "[[PASTE]]"),
      Rule("COMMAND_BACKSPACE",
           Action(Alt(<<Lit("backspace"), Ph(<<"delete", "character">>),
                        Ph(<<"remove", "character">>)>>)),
           "text", "[[BACKSPACE]]"),
      Rule("COMMAND_DELETE_WORD",
           Action(Alt(<<Ph(<<"delete", "word">>), Ph(<<"remove", "word">>),
                        Ph(<<"backspace", "word">>)>>)),
           "text", "[[DELETE_WORD]]"),
      Rule("COMMAND_DELETE_LINE",
           Action(Alt(<<Ph(<<"delete", "line">>), Ph(<<"remove", "line">>),
                        Ph(<<"clear", "line">>)>>)),
           "text", "[[DELETE_LINE]]"),
      Rule("COMMAND_ENTER",
           Action(Alt(<<Ph(<<"press", "enter">>), Ph(<<"hit", "enter">>),
                        Ph(<<"enter", "key">>)>>)),
           "text", "[[ENTER]]"),
      Rule("COMMAND_TAB_KEY",
           Action(Alt(<<Ph(<<"press", "tab">>), Ph(<<"hit", "tab">>),
                        Ph(<<"tab", "key">>)>>)),
           "text", "[[TAB]]"),
      Rule("COMMAND_ESCAPE",
           Action(Alt(<<Ph(<<"press", "escape">>), Ph(<<"hit", "escape">>),
                        Ph(<<"escape", "key">>)>>)),
           "text", "[[ESCAPE]]"),
      Rule("COMMAND_GO_LEFT",
           Action(Alt(<<Ph(<<"go", "left">>), Ph(<<"move", "left">>),
                        Ph(<<"cursor", "left">>), Ph(<<"left", "arrow">>)>>)),
           "text", "[[LEFT]]"),
      Rule("COMMAND_GO_RIGHT",
           Action(Alt(<<Ph(<<"go", "right">>), Ph(<<"move", "right">>),
                        Ph(<<"cursor", "right">>), Ph(<<"right", "arrow">>)>>)),
           "text", "[[RIGHT]]"),
      Rule("COMMAND_GO_UP",
           Action(Alt(<<Ph(<<"go", "up">>), Ph(<<"move", "up">>),
                        Ph(<<"cursor", "up">>), Ph(<<"up", "arrow">>)>>)),
           "text", "[[UP]]"),
      Rule("COMMAND_GO_DOWN",
           Action(Alt(<<Ph(<<"go", "down">>), Ph(<<"move", "down">>),
                        Ph(<<"cursor", "down">>), Ph(<<"down", "arrow">>)>>)),
           "text", "[[DOWN]]"),
      Rule("COMMAND_GO_START",
           Action(Alt(<<Ph(<<"go", "to", "start">>),
                        Ph(<<"go", "to", "beginning">>),
                        Ph(<<"beginning", "of", "line">>),
                        Ph(<<"home", "key">>)>>)),
           "text", "[[HOME]]"),
      Rule("COMMAND_GO_END",
           Action(Alt(<<Ph(<<"go", "to", "end">>), Ph(<<"end", "of", "line">>),
                        Ph(<<"end", "key">>)>>)),
           "text", "[[END]]"),
      Rule("COMMAND_GO_WORD_LEFT",
           Action(Alt(<<Ph(<<"word", "left">>), Ph(<<"previous", "word">>),
                        Ph(<<"back", "word">>)>>)),
           "text", "[[WORD_LEFT]]"),
      Rule("COMMAND_GO_WORD_RIGHT",
           Action(Alt(<<Ph(<<"word", "right">>), Ph(<<"next", "word">>),
                        Ph(<<"forward", "word">>)>>)),
           "text", "[[WORD_RIGHT]]")>>

\* \b<w>\s*case\s+([a-z]+(?:\s+[a-z]+)*)\b
CasePattern(w) == Cat(<<B, PhO(<<w, "case">>), W, Cap(1, Name), B>>)

\* the replace_all calls of process_explicit_casing, in order
ExplicitCasingRules ==
    <<Rule("CAMEL_CASE_PATTERN", CasePattern("camel"), "camel1", ""),
      Rule("SNAKE_CASE_PATTERN", CasePattern("snake"), "snake1", ""),
      Rule("PASCAL_CASE_PATTERN", CasePattern("pascal"), "pascal1", ""),
      Rule("KEBAB_CASE_PATTERN", CasePattern("kebab"), "kebab1", ""),
      Rule("CONSTANT_CASE_PATTERN",
           Cat(<<B, Cap(1, Words(<<"constant", "screaming">>)), Ws,
                 Lit("case"), W, Cap(2, Name), B>>), "constant2", "")>>

FunctionRules ==
    <<Rule("FUNCTION_PATTERN",
           Cat(<<B, Cap(1, Words(<<"function", "func", "method", "def">>)), W,
                 Cap(2, Name), B>>), "function", "")>>

FileMentionRules ==
    <<Rule("FILE_MENTION_PATTERN",
           Cat(<<B, Cap(1, Words(MentionPrepositions)), W, Cap(2, Ident), W,
                 Lit("dot"), W, Cap(3, Words(MentionExts)), B>>),
           "mention", ""),
      Rule("STANDALONE_FILE_MENTION_PATTERN",
           Cat(<<B, Cap(1, Ident), W, Lit("dot"), W,
                 Cap(2, Words(StandaloneExts)), B>>), "file", "")>>

FilePathRules ==
    <<Rule("FILE_PATH_PATTERN",
           Cat(<<B, Cap(1, Ident), W, Lit("dot"), W, Cap(2, Words(PathExts)),
                 B>>), "file", ""),
      Rule("FILE_WITH_PERIOD_PATTERN",
           Cat(<<B, Cap(1, Ident), Lit("."), Cap(2, Rep(Cls("az"), 1, 5)),
                 B>>), "period", "")>>

VariableRules ==
    <<Rule("VARIABLE_PATTERN",
           Cat(<<B, Cap(1, Words(<<"variable", "var", "const", "let">>)), W,
                 Cap(2, Name), B>>), "variable", "")>>

ClassRules ==
    <<Rule("CLASS_PATTERN",
           Cat(<<B, Lit("class"), W, Cap(1, Name), B>>), "class", "")>>

\* <w>\s*(o1|o2|...)
Pair(w, objs) == Cat(<<Lit(w), Ws, Words(objs)>>)

\* <w>\s*square(\s*bracket)?
Square(w) ==
    Cat(<<PhO(<<w, "square">>), Opt(Cat(<<Ws, Lit("bracket")>>))>>)

\* the replace_all calls of process_symbols, in order
SymbolRules ==
    <<Rule("SEMICOLON_PATTERN", Bounded(PhO(<<"semi", "colon">>)), "text", ";"),
      Rule("BACKSLASH_PATTERN", Bounded(PhO(<<"back", "slash">>)), "text", "\\"),
      Rule("SLASH_PATTERN",
           Cat(<<B, Opt(Cat(<<Lit("forward"), W>>)), Lit("slash"), B>>),
           "text", "/"),
      Rule("UNDERSCORE_PATTERN", Bounded(Lit("underscore")), "text", "_"),
      Rule("HYPHEN_PATTERN", Bounded(Words(<<"hyphen", "dash">>)), "text", "-"),
      Rule("COLON_PATTERN", Bounded(Lit("colon")), "text", ":"),
      Rule("ARROW_PATTERN",
           Cat(<<B, Opt(Cat(<<Lit("fat"), W>>)), Lit("arrow"), B>>),
           "text", "=>"),
      Rule("EQUALS_PATTERN",
           Bounded(Alt(<<Cat(<<Lit("equal"), Opt(Lit("s")),
                               Opt(Cat(<<W, Lit("sign")>>))>>),
                         Ph(<<"equal", "to">>)>>)), "text", "="),
      Rule("OPEN_PAREN_PATTERN",
           Bounded(Pair("open", <<"paren", "parenthesis", "bracket">>)),
           "text", "("),
      Rule("CLOSE_PAREN_PATTERN",
           Bounded(Pair("close", <<"paren", "parenthesis", "bracket">>)),
           "text", ")"),
      Rule("OPEN_BRACE_PATTERN",
           Bounded(Pair("open", <<"brace", "curly">>)), "text", "{"),
      Rule("CLOSE_BRACE_PATTERN",
           Bounded(Pair("close", <<"brace", "curly">>)), "text", "}"),
      Rule("OPEN_SQUARE_PATTERN", Bounded(Square("open")), "text", "["),
      Rule("CLOSE_SQUARE_PATTERN", Bounded(Square("close")), "text", "]"),
      Rule("TAB_PATTERN",
           Bounded(Cat(<<Lit("tab"), W, Words(<<"character", "key">>)>>)),
           "text", "\t")>>

AbbreviationRules ==
    <<Rule("ABBREV_PATTERN", Bounded(Cap(1, Words(Abbreviations))),
           "abbreviation", "")>>

\* what replaces the match m of a rule that began at position i of s: the
\* replacement string, or the value of the closure given to replace_all
Replacement(rule, s, i, m) ==
    CASE rule.kind = "text" -> rule.text
      [] rule.kind = "upper1" -> to_uppercase(Group(s, m, 1))
      [] rule.kind = "lower1" -> to_lowercase(Group(s, m, 1))
      [] rule.kind = "capfirst1" -> CapFirst(Group(s, m, 1))
      [] rule.kind = "camel1" -> to_camel_case(Group(s, m, 1))
      [] rule.kind = "snake1" -> to_snake_case(Group(s, m, 1))
      [] rule.kind = "pascal1" -> to_pascal_case(Group(s, m, 1))
      [] rule.kind = "kebab1" -> to_kebab_case(Group(s, m, 1))
      [] rule.kind = "constant2" -> to_constant_case(Group(s, m, 2))
      [] rule.kind = "function" -> to_camel_case(Group(s, m, 2)) \o "()"
      [] rule.kind = "mention" ->
            Group(s, m, 1) \o " @" \o to_lowercase(Group(s, m, 2)) \o "."
                \o to_lowercase(Group(s, m, 3))
      [] rule.kind = "file" ->
            "@" \o to_lowercase(Group(s, m, 1)) \o "."
                \o to_lowercase(Group(s, m, 2))
      [] rule.kind = "period" ->
            IF to_lowercase(Group(s, m, 2)) \in FILE_EXTENSIONS
            THEN "@" \o to_lowercase(Group(s, m, 1)) \o "."
                     \o to_lowercase(Group(s, m, 2))
            ELSE Group(s, m, 1) \o "." \o Group(s, m, 2)
      [] rule.kind = "variable" ->
            to_lowercase(Group(s, m, 1)) \o " " \o to_camel_case(Group(s, m, 2))
      [] rule.kind = "class" -> "class " \o to_pascal_case(Group(s, m, 1))
      [] rule.kind = "abbreviation" ->
            IF i > 1 /\ CharAt(s, i - 1) \in {"@", "."}
            THEN to_lowercase(Group(s, m, 1))
            ELSE to_uppercase(Group(s, m, 1))

\* Regex::replace_all from position i on: the leftmost match, its
\* replacement, and the search resumed where the match ended
RECURSIVE ReplaceFrom(_, _, _)
ReplaceFrom(rule, s, i) ==
    IF i > Len(s) THEN ""
    ELSE LET ms == Match(rule.re, s, [pos |-> i, caps |-> NoCaps])
         IN  IF ms = << >> \/ ms[1].pos = i
             THEN CharAt(s, i) \o ReplaceFrom(rule, s, i + 1)
             ELSE Replacement(rule, s, i, ms[1]) \o ReplaceFrom(rule, s, ms[1].pos)

replace_all(rule, s) == ReplaceFrom(rule, s, 1)

\* the rules applied one after the other, each to the result of the last
RECURSIVE ApplyRules(_, _, _)
ApplyRules(rules, i, s) ==
    IF i > Len(rules) \/ s = "" THEN s
    ELSE ApplyRules(rules, i + 1, replace_all(rules[i], s))

----------------------------------------------------------------------------
(* PostProcessor (post_process.rs 254-684) *)

process_voice_commands(text) == ApplyRules(VoiceCommandRules, 1, text)

process_explicit_casing(text) == ApplyRules(ExplicitCasingRules, 1, text)

process_functions(text) == ApplyRules(FunctionRules, 1, text)

process_file_mentions(text) == ApplyRules(FileMentionRules, 1, text)

\* fault injection for C12: the duplicate "@@" is not removed
process_file_paths_keeps_duplicates(text) == ApplyRules(FilePathRules, 1, text)

process_file_paths(text) == replace(ApplyRules(FilePathRules, 1, text), "@@", "@")

process_variables(text) == ApplyRules(VariableRules, 1, text)

process_classes(text) == ApplyRules(ClassRules, 1, text)

\* the words of one line: "dot" and "period" become "." unless the next word
\* is a file extension
RECURSIVE DotWords(_, _)
DotWords(words, i) ==
    IF i > Len(words) THEN << >>
    ELSE LET word == words[i]
             next_is_ext == /\ i + 1 <= Len(words)
                            /\ to_lowercase(words[i + 1]) \in file_extensions
         IN  <<IF to_lowercase(word) \in {"dot", "period"} /\ ~ next_is_ext
               THEN "." ELSE word>> \o DotWords(words, i + 1)

RECURSIVE DotLines(_)
DotLines(lines) ==
    IF lines = << >> THEN << >>
    ELSE <<join(DotWords(split_whitespace(lines[1]), 1), " ")>>
         \o DotLines(Tail(lines))

process_standalone_dots(text) == join(DotLines(split_lines(text)), "\n")

process_symbols(text) == process_standalone_dots(ApplyRules(SymbolRules, 1, text))

process_abbreviations(text) == ApplyRules(AbbreviationRules, 1, text)

\* a word starts at i: an alphabetic character not preceded by an
\* alphanumeric one
WordStart(text, i) ==
    /\ is_alphabetic(CharAt(text, i))
    /\ i = 1 \/ ~ is_alphanumeric(CharAt(text, i - 1))

RECURSIVE AlnumEnd(_, _)
AlnumEnd(text, i) ==
    IF i > Len(text) \/ ~ is_alphanumeric(CharAt(text, i)) THEN i
    ELSE AlnumEnd(text, i + 1)

RECURSIVE KeywordsFrom(_, _)
KeywordsFrom(text, i) ==
    IF i > Len(text) THEN ""
    ELSE IF WordStart(text, i)
         THEN LET word_end == AlnumEnd(text, i)
                  word == SubSeq(text, i, word_end - 1)
              IN  (IF to_lowercase(word) \in keywords
                   THEN to_lowercase(word) ELSE word)
                  \o KeywordsFrom(text, word_end)
         ELSE CharAt(text, i) \o KeywordsFrom(text, i + 1)

process_keywords(text) == KeywordsFrom(text, 1)

\* fault injection for C13: every '.' ends a sentence, file names included
RECURSIVE SentenceFromEveryDot(_, _, _)
SentenceFromEveryDot(chars, i, capitalize_next) ==
    IF i > Len(chars) THEN ""
    ELSE LET c == CharAt(chars, i)
         IN  IF capitalize_next /\ is_alphabetic(c)
             THEN UpperChar(c) \o SentenceFromEveryDot(chars, i + 1, FALSE)
             ELSE c \o SentenceFromEveryDot(chars, i + 1,
                        IF c \in {".", "!", "?"} THEN TRUE ELSE capitalize_next)

RECURSIVE SentenceFrom(_, _, _)
SentenceFrom(chars, i, capitalize_next) ==
    IF i > Len(chars) THEN ""
    ELSE LET c == CharAt(chars, i)
             before_is_alnum == i > 1 /\ is_alphanumeric(CharAt(chars, i - 1))
             after_is_alnum ==
                 i < Len(chars) /\ is_alphanumeric(CharAt(chars, i + 1))
         IN  IF capitalize_next /\ is_alphabetic(c)
             THEN UpperChar(c) \o SentenceFrom(chars, i + 1, FALSE)
             ELSE c \o SentenceFrom(chars, i + 1,
                        IF c \in {".", "!", "?"}
                        THEN ~ (c = "." /\ before_is_alnum /\ after_is_alnum)
                        ELSE capitalize_next)

fix_sentence_casing(text) == SentenceFrom(text, 1, TRUE)

RECURSIVE SpacesFrom(_, _, _)
SpacesFrom(text, i, prev_was_space) ==
    IF i > Len(text) THEN ""
    ELSE LET c == CharAt(text, i)
         IN  IF is_whitespace(c) /\ c # "\n" /\ c # "\t"
             THEN (IF prev_was_space THEN "" ELSE " ")
                  \o SpacesFrom(text, i + 1, TRUE)
             ELSE c \o SpacesFrom(text, i + 1, FALSE)

cleanup_whitespace(text) == trim(SpacesFrom(text, 1, FALSE))

\* PostProcessor::process
process(text) ==
    LET r1 == process_voice_commands(text)
        r2 == process_explicit_casing(r1)
        r3 == process_functions(r2)
        r4 == process_file_mentions(r3)
        r5 == process_file_paths(r4)
        r6 == process_variables(r5)
        r7 == process_classes(r6)
        r8 == process_symbols(r7)
        r9 == fix_sentence_casing(r8)
        r10 == process_abbreviations(r9)
        r11 == process_keywords(r10)
    IN  cleanup_whitespace(r11)

\* process applied to the transcript, and then to its own result
Process ==
    /\ Len(ppOut) < MaxPasses
    /\ ppOut' = Append(ppOut, process(IF ppOut = << >> THEN ppText
                                      ELSE ppOut[Len(ppOut)]))
    /\ UNCHANGED <<ppText, now, limiterVars, appVars, calls, auxVars>>

\* no transcript: the post-processor is not used
InitPost == ppText = "" /\ ppOut = << >>

\* ErrorReporter::new: an empty cache and an empty count map (or_insert(0)
\* makes a missing fingerprint read as 0)
InitReporter ==
    /\ error_counts = [f \in Fingerprints |-> 0]
    /\ recent_errors = << >>
    /\ stored = << >>
    /\ reportCalls = [r \in Reports |-> 0]
    /\ pending = [c \in Callers |-> << >>]

\* TextInjector::new: arboard::Clipboard::new().ok() may be None
InitInjector ==
    /\ clipboard \in {<< >>, <<"">>}
    /\ keyEvents = << >>

\* the commands that take a model id
IdCommands ==
    {"get_model_url", "is_model_downloaded", "get_model_path", "add_transcription"}

\* no model-id command has been called
InitFileVars ==
    /\ fileRequests = << >>
    /\ opened = << >>

\* the models directory holds no file of the model, no download runs
InitDlVars ==
    /\ fs = [temp_path |-> 0, model_path |-> 0, files |-> << >>]
    /\ dl = [d \in Downloads |-> [pc |-> "idle", file |-> 0, downloaded |-> 0]]

\* the license row as init_tables inserts it (database.rs 199-244), no cache
InitLicVars ==
    /\ license = [status |-> "inactive", is_activated |-> FALSE,
                  trial_started_at |-> << >>]
    /\ license_cache = << >>
    /\ today = 0
    /\ trial_starts = << >>

InitExt ==
    /\ model_id = "tiny"
    /\ idRes = [cmd \in IdCommands |-> << >>]
    /\ InitFileVars
    /\ InitDlVars
    /\ InitLicVars

\* nothing has been cased or sanitised, the injector has its clipboard
InitAux ==
    /\ cased = << >>
    /\ InitReporter
    /\ path = "" /\ pathRes = << >>
    /\ clipboard = <<"">> /\ keyEvents = << >>
    /\ InitExt

----------------------------------------------------------------------------
(* ErrorReporter (error_reporting.rs 180-563) *)

\* ErrorReporter::new: max_recent_errors: 100
max_recent_errors == 100

\* the test of report: occurrence_count <= 10 || occurrence_count % 100 == 0
\* fault injection for C15: < for <=
should_store_off_by_one(occurrence_count) ==
    occurrence_count < 10 \/ occurrence_count % 100 = 0

should_store(occurrence_count) ==
    occurrence_count <= 10 \/ occurrence_count % 100 = 0

\* fault injection for C16: the newest report is removed, not the oldest
trim_one_newest(recent) ==
    IF Len(recent) > max_recent_errors THEN SubSeq(recent, 1, Len(recent) - 1)
    ELSE recent

\* if recent.len() > self.max_recent_errors { recent.remove(0); }
trim_one(recent) ==
    IF Len(recent) > max_recent_errors THEN Tail(recent) ELSE recent

\* while errors.len() > self.max_recent_errors { errors.remove(0); }
trim_all(errors) ==
    IF Len(errors) > max_recent_errors
    THEN SubSeq(errors, Len(errors) - max_recent_errors + 1, Len(errors))
    ELSE errors

\* the recent_errors mutex is free: clear holds it while it takes the
\* error_counts mutex
RecentFree == \A c \in Callers : pc[c] # "clear_counts"

\* history: the report calls made with fingerprint f
RECURSIVE SumCalls(_)
SumCalls(S) ==
    IF S = {} THEN 0
    ELSE LET r == CHOOSE x \in S : TRUE IN reportCalls[r] + SumCalls(S \ {r})

CallsWith(f) == SumCalls({r \in Reports : fingerprint(r) = f})

\* report, first critical section: the count of the fingerprint goes up by
\* one under the error_counts mutex
ReportCount(c, r) ==
    /\ pc[c] = "idle"
    /\ error_counts' = [error_counts EXCEPT ![fingerprint(r)] = @ + 1]
    /\ reportCalls' = [reportCalls EXCEPT ![r] = @ + 1]
    /\ pending' = [pending EXCEPT
                     ![c] = <<[report |-> r, fp |-> fingerprint(r),
                              occurrence_count |-> error_counts[fingerprint(r)] + 1,
                              nth |-> CallsWith(fingerprint(r)) + 1]>>]
    /\ Goto(c, "report_store")
    /\ UNCHANGED <<recent_errors, stored>>

\* report, second critical section: the copy with its count is pushed and
\* the cache trimmed under the recent_errors mutex, if the count says so
ReportStore(c) ==
    /\ pc[c] = "report_store"
    /\ RecentFree
    /\ IF should_store(pending[c][1].occurrence_count)
       THEN /\ recent_errors' = trim_one(Append(recent_errors, pending[c][1]))
            /\ stored' = Append(stored, pending[c][1])
            /\ Return(c, "report", "stored", << >>)
       ELSE /\ UNCHANGED <<recent_errors, stored>>
            /\ Return(c, "report", "skipped", << >>)
    /\ pending' = [pending EXCEPT ![c] = << >>]
    /\ UNCHANGED <<error_counts, reportCalls>>

\* the reports of errors.json: n reports written by an earlier run
Loaded(n) ==
    [i \in 1 .. n |->
        [report |-> [category |-> "system", severity |-> "ERROR",
                     message |-> "from file", details |-> << >>],
         fp |-> "system:ERROR:from file", occurrence_count |-> i, nth |-> 0]]

\* load_from_file with a file of n reports: extend, then trim from the front
LoadFromFile(c, n) ==
    /\ pc[c] = "idle"
    /\ RecentFree
    /\ recent_errors' = trim_all(recent_errors \o Loaded(n))
    /\ stored' = stored \o Loaded(n)
    /\ Return(c, "load_from_file", "Ok", <<n>>)
    /\ UNCHANGED <<error_counts, reportCalls, pending>>

\* clear: the cache is emptied under the recent_errors mutex
ClearErrors(c) ==
    /\ pc[c] = "idle"
    /\ RecentFree
    /\ recent_errors' = << >>
    /\ stored' = << >>
    /\ Goto(c, "clear_counts")
    /\ UNCHANGED <<error_counts, reportCalls, pending>>

\* clear: then the counts, under the error_counts mutex, the first still held
ClearCounts(c) ==
    /\ pc[c] = "clear_counts"
    /\ error_counts' = [f \in Fingerprints |-> 0]
    /\ reportCalls' = [r \in Reports |-> 0]
    /\ Return(c, "clear", "Ok", << >>)
    /\ UNCHANGED <<recent_errors, stored, pending>>

----------------------------------------------------------------------------
(* sanitize_path (lib.rs 75-116) *)

\* path.contains("..") || path.contains("//")
forbidden(p) == Contains(p, "..") \/ Contains(p, "//")

\* the Unix branch: an absolute path must be inside an allowed directory
unix_allowed(normalized) ==
    \/ Contains(normalized, "/WaveType/")
    \/ starts_with(normalized, "/tmp/")
    \/ starts_with(normalized, "/home/")
    \/ starts_with(normalized, "/Users/")

\* the Windows branch: a drive letter followed by ':'
has_drive(normalized) ==
    /\ Len(normalized) >= 2
    /\ is_alphabetic(CharAt(normalized, 1))
    /\ CharAt(normalized, 2) = ":"

windows_allowed(normalized) ==
    \/ Contains(normalized, "WaveType")
    \/ Contains(normalized, "AppData")
    \/ Contains(normalized, "Users")

\* sanitize_path: the test for ".." and "//" on the path as given, then the
\* backslashes replaced, then the directory tests on the normalised path
sanitize_path(p) ==
    IF forbidden(p)
    THEN [ok |-> FALSE, val |-> "Invalid path: contains forbidden characters"]
    ELSE LET normalized == replace(p, "\\", "/")
         IN  IF starts_with(normalized, "/")
             THEN IF ~ unix_allowed(normalized)
                  THEN [ok |-> FALSE,
                        val |-> "Invalid path: outside allowed directories"]
                  ELSE [ok |-> TRUE, val |-> normalized]
             ELSE IF has_drive(normalized) /\ ~ windows_allowed(normalized)
                  THEN [ok |-> FALSE,
                        val |-> "Invalid path: outside allowed directories"]
                  ELSE [ok |-> TRUE, val |-> normalized]

\* a command hands its path argument to sanitize_path
SanitizePath ==
    /\ pathRes = << >>
    /\ pathRes' = <<sanitize_path(path)>>
    /\ UNCHANGED path

----------------------------------------------------------------------------
(* TextInjector::inject_text (text_inject.rs 40-112) and the inject_text
   command (lib.rs 118-130, 762-776) *)

\* char::is_control on the characters used here
is_control(c) == c \in {"\n", "\r", "\t", "\f"}

\* fault injection for C19: sanitize_text removes nothing
sanitize_text_keeps_all(text) == text

\* sanitize_text: the control characters go, except \n, \r and \t
RECURSIVE sanitize_text(_)
sanitize_text(text) ==
    IF text = "" THEN ""
    ELSE LET c == CharAt(text, 1)
         IN  (IF ~ is_control(c) \/ c \in {"\n", "\r", "\t"} THEN c ELSE "")
             \o sanitize_text(From(text, 2))

\* the three key events of execute_paste on Linux and Windows
PasteChord == <<"press Control", "click v", "release Control">>

\* execute_paste when the key event numbered failed_key returns Err (0: none
\* does): the events before it have been synthesised
execute_paste(failed_key) ==
    [ok |-> failed_key = 0,
     events |-> IF failed_key = 0 THEN PasteChord
                ELSE SubSeq(PasteChord, 1, failed_key - 1)]

\* fault injection for C18: the paste route is taken whenever there is a
\* clipboard, whether or not set_text succeeded
TextInjector_inject_text_ignores_set(clip, text, set_ok, failed_key, type_ok) ==
    IF text = ""
    THEN [res |-> "Ok", clipboard |-> clip, events |-> << >>, route |-> "none"]
    ELSE IF clip # << >>
    THEN [res |-> IF execute_paste(failed_key).ok THEN "Ok"
                  ELSE "Err: key event failed",
          clipboard |-> IF set_ok THEN <<text>> ELSE clip,
          events |-> execute_paste(failed_key).events,
          route |-> "paste"]
    ELSE [res |-> IF type_ok THEN "Ok" ELSE "Err: Failed to inject text",
          clipboard |-> clip,
          events |-> IF type_ok THEN <<"text " \o text>> ELSE << >>,
          route |-> "typing"]

\* TextInjector::inject_text on a clipboard clip (<< >> is None), the outcomes
\* of set_text, of the key events and of enigo.text being given: the
\* result, the clipboard and key events after it, and the route taken
TextInjector_inject_text(clip, text, set_ok, failed_key, type_ok) ==
    IF text = ""
    THEN [res |-> "Ok", clipboard |-> clip, events |-> << >>, route |-> "none"]
    ELSE IF clip # << >> /\ set_ok
    THEN [res |-> IF execute_paste(failed_key).ok THEN "Ok"
                  ELSE "Err: key event failed",
          clipboard |-> <<text>>,
          events |-> execute_paste(failed_key).events,
          route |-> "paste"]
    ELSE [res |-> IF type_ok THEN "Ok" ELSE "Err: Failed to inject text",
          clipboard |-> clip,
          events |-> IF type_ok THEN <<"text " \o text>> ELSE << >>,
          route |-> "typing"]

\* history: what a call was given and what it found
CallRecord(raw, text, route, set_ok, failed_key, type_ok) ==
    [raw |-> raw, text |-> text, route |-> route, set_ok |-> set_ok,
     failed_key |-> failed_key, type_ok |-> type_ok,
     clipboard_before |-> clipboard, events_before |-> Len(keyEvents)]

\* a call of TextInjector::inject_text
InjectorInjectText(text, set_ok, failed_key, type_ok) ==
    LET r == TextInjector_inject_text(clipboard, text, set_ok, failed_key, type_ok)
    IN  /\ clipboard' = r.clipboard
        /\ keyEvents' = keyEvents \o r.events
        /\ lastRet' = [cmd |-> "TextInjector::inject_text", res |-> r.res,
                       out |-> CallRecord(text, text, r.route, set_ok,
                                          failed_key, type_ok)]

\* the inject_text command: sanitize_text, the emptiness test, then
\* TextInjector::inject_text under the injector's lock
InjectTextCommand(text, set_ok, failed_key, type_ok) ==
    LET sanitized == sanitize_text(text)
        r == TextInjector_inject_text(clipboard, sanitized, set_ok, failed_key,
                                      type_ok)
    IN  IF sanitized = ""
        THEN /\ lastRet' = [cmd |-> "inject_text",
                            res |-> "Err: No text to inject",
                            out |-> CallRecord(text, sanitized, "none", set_ok,
                                               failed_key, type_ok)]
             /\ UNCHANGED <<clipboard, keyEvents>>
        ELSE /\ clipboard' = r.clipboard
             /\ keyEvents' = keyEvents \o r.events
             /\ lastRet' = [cmd |-> "inject_text", res |-> r.res,
                            out |-> CallRecord(text, sanitized, r.route, set_ok,
                                               failed_key, type_ok)]

----------------------------------------------------------------------------
(* Model ids (transcription.rs 135-195, lib.rs 703-742, 821-872) *)

\* the arms of get_model_url that format a file of the whisper.cpp repository
WhisperUrlFiles ==
    [x \in {"tiny", "base", "small", "medium", "large-v2", "large-v3",
            "large-v3-turbo", "tiny.en", "base.en", "small.en", "medium.en"}
       |-> "ggml-" \o x \o ".bin"]
    @@ ("large" :> "ggml-large-v3.bin")

\* the arms of get_model_url for the distil-whisper repositories
DistilIds ==
    {"distil-small.en", "distil-medium.en", "distil-large-v2", "distil-large-v3"}

\* get_model_url: << >> is None
get_model_url(id) ==
    IF id \in DOMAIN WhisperUrlFiles
    THEN <<"https://huggingface.co/ggerganov/whisper.cpp/resolve/main/"
           \o WhisperUrlFiles[id]>>
    ELSE IF id \in DistilIds
    THEN <<"https://huggingface.co/distil-whisper/" \o id
           \o "/resolve/main/ggml-" \o id \o ".bin">>
    ELSE << >>

\* get_model_filename: every arm yields ggml-<id>.bin, the named ones as
\* literals and the default by format!
get_model_filename(id) ==
    CASE id = "distil-small.en" -> "ggml-distil-small.en.bin"
      [] id = "distil-medium.en" -> "ggml-distil-medium.en.bin"
      [] id = "distil-large-v2" -> "ggml-distil-large-v2.bin"
      [] id = "distil-large-v3" -> "ggml-distil-large-v3.bin"
      [] id = "tiny.en" -> "ggml-tiny.en.bin"
      [] id = "base.en" -> "ggml-base.en.bin"
      [] id = "small.en" -> "ggml-small.en.bin"
      [] id = "medium.en" -> "ggml-medium.en.bin"
      [] OTHER -> "ggml-" \o id \o ".bin"

\* VALID_MODEL_IDS, the same list in is_model_downloaded, get_model_path and
\* add_transcription
VALID_MODEL_IDS ==
    {"tiny", "base", "small", "medium", "large", "large-v3", "large-v3-turbo",
     "tiny.en", "base.en", "small.en", "medium.en",
     "distil-small.en", "distil-medium.en", "distil-large-v2", "distil-large-v3"}

InvalidModelId == <<"Err: Invalid model ID">>

\* what is left of the state of a model-id command
IdCall(cmd, res) ==
    /\ idRes[cmd] = << >>
    /\ idRes' = [idRes EXCEPT ![cmd] = res]
    /\ UNCHANGED model_id

\* get_model_url, as download_model calls it
GetModelUrl ==
    IdCall("get_model_url",
           IF get_model_url(model_id) = << >> THEN <<"None">>
           ELSE <<"Some", get_model_url(model_id)[1]>>)

\* the is_model_downloaded command; present: the file of the model exists
IsModelDownloaded(present) ==
    IdCall("is_model_downloaded",
           IF model_id \notin VALID_MODEL_IDS THEN InvalidModelId
           ELSE <<"Ok", IF present THEN "true" ELSE "false">>)

\* the get_model_path command: models_dir.join(get_model_filename(id))
GetModelPath ==
    IdCall("get_model_path",
           IF model_id \notin VALID_MODEL_IDS THEN InvalidModelId
           ELSE <<"Ok", "models/" \o get_model_filename(model_id)>>)

\* the add_transcription command with a text, language and duration that
\* pass their tests
AddTranscription ==
    IdCall("add_transcription",
           IF model_id \notin VALID_MODEL_IDS THEN InvalidModelId
           ELSE <<"Ok", "row">>)

\* Control held around one clicked key, the shape of most arms
Chord(key) == <<"press Control", "click " \o key, "release Control">>

\* the key events of the arms of TextInjector::execute_shortcut on Linux and
\* Windows, in the order of the source
shortcut_keys ==
    [undo |-> Chord("z"), redo |-> Chord("y"), copy |-> Chord("c"),
     cut |-> Chord("x"), paste |-> Chord("v"), select_all |-> Chord("a"),
     backspace_word |-> Chord("Backspace"), delete_word |-> Chord("Backspace"),
     backspace |-> <<"click Backspace">>,
     delete_line |-> <<"click Home", "press Shift", "click End",
                       "release Shift", "click Backspace">>,
     enter |-> <<"click Return">>, tab |-> <<"click Tab">>,
     escape |-> <<"click Escape">>, left |-> <<"click LeftArrow">>,
     right |-> <<"click RightArrow">>, up |-> <<"click UpArrow">>,
     down |-> <<"click DownArrow">>, home |-> <<"click Home">>,
     end |-> <<"click End">>, word_left |-> Chord("LeftArrow"),
     word_right |-> Chord("RightArrow")]

\* the events of keys that were synthesised when the one numbered
\* failed_key returned Err (0: none did): an arm sends each key with .ok()
\* and goes on to the next
KeysSent(keys, failed_key) ==
    SelectSeq([i \in 1 .. Len(keys) |-> IF i = failed_key THEN "" ELSE keys[i]],
              LAMBDA e : e # "")

\* a call of TextInjector::execute_shortcut
InjectorExecuteShortcut(shortcut, failed_key) ==
    /\ keyEvents' = keyEvents \o
          (IF shortcut \in DOMAIN shortcut_keys
           THEN KeysSent(shortcut_keys[shortcut], failed_key) ELSE << >>)
    /\ lastRet' = [cmd |-> "TextInjector::execute_shortcut",
                   res |-> IF shortcut \in DOMAIN shortcut_keys THEN "Ok"
                           ELSE "Err: Unknown shortcut",
                   out |-> [shortcut |-> shortcut, failed_key |-> failed_key,
                            events_before |-> Len(keyEvents)]]
    /\ UNCHANGED clipboard

----------------------------------------------------------------------------
(* transcribe_file (lib.rs 455-521) and read_audio_file (lib.rs 523-532) *)

\* the paths handed to transcribe_file
FilePaths ==
    {"/tmp/a.wav", "/tmp/A.WAV", "/tmp/a.txt", "/tmp/d/a.wav", "/tmp/d\\a.wav",
     "\\tmp\\a.wav", "/tmp/big.wav", "/tmp/edge.mp3", "/tmp/none.wav",
     "/etc/a.wav", "/tmp/../etc/a.wav", "/tmp//a.wav", "a.wav", ""}

\* the files on the disk: path -> size in MB
Disk ==
    ("/tmp/a.wav" :> 1) @@ ("/tmp/A.WAV" :> 1) @@ ("/tmp/a.txt" :> 1)
    @@ ("/tmp/d/a.wav" :> 1) @@ ("/tmp/big.wav" :> 501)
    @@ ("/tmp/edge.mp3" :> 500) @@ ("/etc/a.wav" :> 1)

\* the index of the last occurrence of the character ch in s, or 0
LastIndex(s, ch) ==
    LET at == {i \in 1 .. Len(s) : CharAt(s, i) = ch}
    IN  IF at = {} THEN 0 ELSE CHOOSE i \in at : \A j \in at : j <= i

\* Path::extension, lower-cased: << >> is None
extension(p) ==
    LET name == From(p, LastIndex(p, "/") + 1)
        dot == LastIndex(name, ".")
    IN  IF dot <= 1 THEN << >> ELSE <<to_lowercase(From(name, dot + 1))>>

AudioExtensions == {"wav", "mp3", "m4a", "ogg", "flac", "aac", "webm", "mkv"}

\* the checks of transcribe_file on safe_path, after sanitize_path accepted
\* it: "Ok" or the error returned
file_checks(safe_path) ==
    IF safe_path \notin DOMAIN Disk THEN "Err: File not found"
    ELSE IF extension(safe_path) = << >>
            \/ extension(safe_path)[1] \notin AudioExtensions
    THEN "Err: Unsupported audio format"
    ELSE IF Disk[safe_path] > MaxFileMB THEN "Err: File too large"
    ELSE "Ok"

\* sanitize_path(&file_path)? and the checks on its result, for each path
\* handed to transcribe_file
Validated ==
    [file_path \in FilePaths |->
        LET safe == sanitize_path(file_path)
        IN  [safe_path |-> safe,
             checked |-> IF safe.ok THEN file_checks(safe.val)
                         ELSE "Err: " \o safe.val]]

\* the whole of transcribe_file: the rate limiter, sanitize_path, the checks
\* on safe_path, read_audio_file(&file_path), then the transcriber
TranscribeFile(file_path, decoded, inferred) ==
    LET admits == CheckAdmits(fileRequests, now, TrMaxRequests, TrWindow)
        safe == Validated[file_path].safe_path
        checked == Validated[file_path].checked
        reads == admits /\ checked = "Ok"
        read_ok == file_path \in DOMAIN Disk /\ decoded
        res == IF ~ admits THEN "Err: Rate limit exceeded"
               ELSE IF checked # "Ok" THEN checked
               ELSE IF ~ read_ok THEN "Err: Failed to read audio file"
               ELSE IF transcriber = "none" THEN "Err: No model loaded"
               ELSE IF inferred THEN "Ok" ELSE "Err: Failed to run inference"
    IN  /\ fileRequests' = CheckStore(fileRequests, now, TrMaxRequests, TrWindow)
        /\ opened' = IF reads THEN <<file_path>> ELSE << >>
        /\ lastRet' = [cmd |-> "transcribe_file", res |-> res,
                       out |-> [file_path |-> file_path,
                                safe_path |-> IF admits /\ safe.ok
                                              THEN <<safe.val>> ELSE << >>,
                                checked |-> IF admits THEN checked
                                            ELSE "Err: Rate limit exceeded"]]

----------------------------------------------------------------------------
(* ModelDownloader (downloader.rs 28-109) *)

\* the body of the model file as the server sends it: chunk k holds k
Complete == [k \in 1 .. NumChunks |-> k]

\* n zero bytes, the hole a write past the end of a file leaves
Hole(n) == [k \in 1 .. n |-> 0]

\* pwrite of one chunk at the offset of an open file
WriteAt(data, offset, chunk) ==
    IF offset < Len(data)
    THEN [data EXCEPT ![offset + 1] = chunk]
    ELSE data \o Hole(offset - Len(data)) \o <<chunk>>

\* ModelDownloader::is_model_downloaded: self.get_model_path(model_id).exists()
Downloader_is_model_downloaded == fs.model_path # 0

DlFrame ==
    UNCHANGED <<now, limiterVars, appRest, pc, postVars, cased, reporterVars,
                path, pathRes, injectorVars, idVars, fileVars, licVars>>

DlGoto(d, step) == dl' = [dl EXCEPT ![d].pc = step]

\* download_model returns: the File, if one is open, is dropped
DlReturn(d, res) ==
    /\ dl' = [dl EXCEPT ![d] = [pc |-> "idle", file |-> 0, downloaded |-> 0]]
    /\ lastRet' = [cmd |-> "download_model", res |-> res, out |-> d]

\* download_model up to the response: get_model_url, create_dir_all, send,
\* the status check; none of them touches a file
DlStart(d, id, failure) ==
    /\ dl[d].pc = "idle"
    /\ IF get_model_url(id) = << >>
       THEN DlReturn(d, "Err: Unknown model")
       ELSE IF failure # "none"
       THEN DlReturn(d, "Err: " \o failure)
       ELSE DlGoto(d, "create") /\ UNCHANGED lastRet
    /\ UNCHANGED fs

\* File::create(&temp_path): creates the file, or truncates the one there
DlCreate(d, ok) ==
    /\ dl[d].pc = "create"
    /\ IF ~ ok
       THEN DlReturn(d, "Err: Failed to create temp file") /\ UNCHANGED fs
       ELSE LET file == IF fs.temp_path # 0 THEN fs.temp_path
                        ELSE Len(fs.files) + 1
            IN  /\ fs' = [fs EXCEPT
                             !.temp_path = file,
                             !.files = IF fs.temp_path # 0
                                       THEN [fs.files EXCEPT ![file] = << >>]
                                       ELSE Append(fs.files, << >>)]
                /\ dl' = [dl EXCEPT ![d] = [pc |-> "stream", file |-> file,
                                            downloaded |-> 0]]
                /\ UNCHANGED lastRet

\* one turn of while let Some(chunk) = stream.next().await
DlChunk(d, outcome) ==
    /\ dl[d].pc = "stream"
    /\ IF dl[d].downloaded = NumChunks
       THEN DlGoto(d, "flush") /\ UNCHANGED <<fs, lastRet>>
       ELSE CASE outcome = "chunk" ->
                   /\ fs' = [fs EXCEPT !.files[dl[d].file] =
                                WriteAt(@, dl[d].downloaded, dl[d].downloaded + 1)]
                   /\ dl' = [dl EXCEPT ![d].downloaded = @ + 1]
                   /\ UNCHANGED lastRet
              [] outcome = "Download error" ->
                   DlReturn(d, "Err: Download error") /\ UNCHANGED fs
              [] outcome = "Failed to write chunk" ->
                   DlReturn(d, "Err: Failed to write chunk") /\ UNCHANGED fs

\* file.flush().await
DlFlush(d, ok) ==
    /\ dl[d].pc = "flush"
    /\ IF ok THEN DlGoto(d, "rename") /\ UNCHANGED lastRet
       ELSE DlReturn(d, "Err: Failed to flush file")
    /\ UNCHANGED fs

\* tokio::fs::rename(&temp_path, &model_path): fails when temp_path is gone
DlRename(d, ok) ==
    /\ dl[d].pc = "rename"
    /\ IF ok /\ fs.temp_path # 0
       THEN /\ fs' = [fs EXCEPT !.model_path = fs.temp_path, !.temp_path = 0]
            /\ DlReturn(d, "Ok")
       ELSE /\ DlReturn(d, "Err: Failed to rename temp file")
            /\ UNCHANGED fs

----------------------------------------------------------------------------
(* License and trial commands (lib.rs 1017-1189, license.rs 523-832,
   database.rs 556-627) *)

\* the day a license key of the server expires at: << >> is no expiry
ExpiryDays == {<< >>, <<3>>}

\* expires_at is in the past: expiry < chrono::Utc::now()
expired_at(expires_at) == expires_at # << >> /\ expires_at[1] < today

\* check_license_status and check_license_status_from_validate
check_license_status(status, expires_at) ==
    IF status = "revoked" THEN "Revoked"
    ELSE IF status = "disabled" THEN "Disabled"
    ELSE IF expired_at(expires_at) THEN "Expired"
    ELSE "Granted"

\* LicenseStatus::allows_usage
allows_usage(status) == status \in {"Granted", "Offline"}

\* the status column validate_license writes for a LicenseStatus
status_column(status) ==
    IF status \in {"Granted", "Offline"} THEN "active"
    ELSE IF status = "Expired" THEN "expired"
    ELSE IF status = "Revoked" THEN "revoked"
    ELSE IF status = "Disabled" THEN "disabled"
    ELSE "inactive"

\* Database::clear_license: every column NULL, status 'inactive'
clear_license ==
    [status |-> "inactive", is_activated |-> FALSE, trial_started_at |-> << >>]

\* LicenseManager::is_valid, on the cache file
LicenseManager_is_valid ==
    /\ license_cache # << >>
    /\ license_cache[1].status = "granted"
    /\ ~ expired_at(license_cache[1].expires_at)
    /\ today - license_cache[1].last_validated_at < GraceDays

\* is_license_valid: the manager, then the trial of the database row
is_license_valid ==
    \/ LicenseManager_is_valid
    \/ /\ license.status = "trial"
       /\ license.trial_started_at # << >>
       /\ today - license.trial_started_at[1] < TrialDays

LicFrame ==
    UNCHANGED <<now, limiterVars, appRest, pc, postVars, cased, reporterVars,
                path, pathRes, injectorVars, idVars, fileVars, dlVars>>

LicReturn(cmd, res) == lastRet' = [cmd |-> cmd, res |-> res, out |-> << >>]

\* start_trial
StartTrial ==
    /\ IF license.is_activated /\ license.status = "active"
       THEN /\ LicReturn("start_trial", "Err: Already have an active license")
            /\ UNCHANGED <<license, trial_starts>>
       ELSE IF license.trial_started_at # << >>
       THEN IF today - license.trial_started_at[1] >= TrialDays
            THEN /\ license' = [license EXCEPT !.status = "trial_expired"]
                 /\ LicReturn("start_trial", "Err: Trial has expired")
                 /\ UNCHANGED trial_starts
            ELSE /\ LicReturn("start_trial", "Ok")
                 /\ UNCHANGED <<license, trial_starts>>
       ELSE /\ license' = [status |-> "trial", is_activated |-> FALSE,
                           trial_started_at |-> <<today>>]
            /\ trial_starts' = Append(trial_starts, today)
            /\ LicReturn("start_trial", "Ok")
    /\ UNCHANGED <<license_cache, today>>

\* activate_license: LicenseManager::activate, then save_license
ActivateLicense(activated, status, expires_at) ==
    /\ IF activated
       THEN /\ license_cache' = <<[status |-> status, expires_at |-> expires_at,
                                   last_validated_at |-> today]>>
            /\ license' = [status |-> "active", is_activated |-> TRUE,
                           trial_started_at |-> << >>]
            /\ LicReturn("activate_license", "Ok")
       ELSE /\ LicReturn("activate_license", "Err: activation failed")
            /\ UNCHANGED <<license, license_cache>>
    /\ UNCHANGED <<today, trial_starts>>

\* validate_offline, on the cache: the LicenseStatus, or "Err"
validate_offline ==
    IF /\ today - license_cache[1].last_validated_at < GraceDays
       /\ license_cache[1].status = "granted"
       /\ ~ expired_at(license_cache[1].expires_at)
    THEN "Offline" ELSE "Err"

\* validate_license: LicenseManager::validate, then let _ = save_license
ValidateLicense(response, status, expires_at) ==
    LET info == IF response = "success"
                THEN check_license_status(status, expires_at)
                ELSE IF response = "404" THEN "Err"
                ELSE validate_offline
    IN  /\ IF license_cache = << >>
           THEN /\ LicReturn("validate_license", "Err: No license activated")
                /\ UNCHANGED <<license, license_cache>>
           ELSE /\ license_cache' =
                      IF response = "success"
                      THEN <<[license_cache[1] EXCEPT
                                !.last_validated_at = today, !.status = status]>>
                      ELSE IF response = "404" THEN << >>
                      ELSE license_cache
                /\ IF info = "Err"
                   THEN /\ LicReturn("validate_license", "Err: validation failed")
                        /\ UNCHANGED license
                   ELSE /\ license' = [status |-> status_column(info),
                                       is_activated |-> allows_usage(info),
                                       trial_started_at |-> << >>]
                        /\ LicReturn("validate_license", "Ok")
        /\ UNCHANGED <<today, trial_starts>>

\* deactivate_license: LicenseManager::deactivate, then clear_license
DeactivateLicense(response) ==
    /\ IF license_cache = << >>
       THEN /\ LicReturn("deactivate_license", "Err: No license to deactivate")
            /\ UNCHANGED <<license, license_cache>>
       ELSE IF response \in {"success", "404"}
       THEN /\ license_cache' = << >>
            /\ license' = clear_license
            /\ LicReturn("deactivate_license", "Ok")
       ELSE /\ LicReturn("deactivate_license", "Err: Deactivation failed")
            /\ UNCHANGED <<license, license_cache>>
    /\ UNCHANGED <<today, trial_starts>>

\* clear_stored_license: let _ = clear_cache(); db.0.clear_license()
ClearStoredLicense ==
    /\ license_cache' = << >>
    /\ license' = clear_license
    /\ LicReturn("clear_stored_license", "Ok")
    /\ UNCHANGED <<today, trial_starts>>

\* a day passes
NextDay ==
    /\ today < MaxDays
    /\ today' = today + 1
    /\ UNCHANGED <<license, license_cache, trial_starts, lastRet>>

----------------------------------------------------------------------------
(* Specifications *)

\* the steps of the capture thread and of the audio callback
Capture ==
    \/ ThreadFail
    \/ ThreadPlay
    \/ ThreadPollStop
    \/ ThreadPollFlag
    \/ ThreadDrop
    \/ CallbackCheck
    \/ CallbackAppend

\* a caller invokes a recording command
InvokeRec(c) ==
    \/ StartRecording(c)
    \/ StopBegin(c, "stop_recording", "stop_join")
    \/ StopBegin(c, "cancel_recording", "cancel_join")

\* a caller invokes a transcription or model command
InvokeModel(c) ==
    \/ \E audio \in {<< >>, <<Frame>>} : TranscribeAudio(c, audio)
    \/ \E m \in Models, exists \in BOOLEAN : LoadModel(c, m, exists)
    \/ UnloadModel(c)

\* a command in progress takes its next step
StepRec(c) ==
    \/ StartLocked(c)
    \/ StopEnd(c)
    \/ CancelEnd(c)

StepModel(c) ==
    \/ TranscribeEnd(c, "transcribe_audio", "ta_transcribing")
    \/ \E ok \in BOOLEAN : LoadNew(c, ok)
    \/ LoadStore(c)

StepApp(c) ==
    \/ RtJoin(c)
    \/ RtLock(c)
    \/ TranscribeEnd(c, "record_and_transcribe", "rt_transcribing")
    \/ \E ok \in BOOLEAN : InjectEnd(c, ok)

Counted(A, max) ==
    /\ A
    /\ calls < max
    /\ calls' = calls + 1
    /\ UNCHANGED <<now, limiterVars, postVars, auxVars>>
Uncounted(A) ==
    A /\ UNCHANGED <<now, limiterVars, postVars, calls, auxVars>>

\* the state after run's setup: no recorder, no model, empty limiter maps
Init == now = 0 /\ InitLimiter /\ InitApp /\ InitPost /\ InitAux

\* the recorder alone: start, stop, cancel against the capture thread
NextRec ==
    \/ \E c \in Callers : Counted(InvokeRec(c), MaxCalls)
    \/ \E c \in Callers : Uncounted(StepRec(c))
    \/ Uncounted(Capture)

SpecRec == Init /\ [][NextRec]_vars

\* the scheduler lets the capture thread, the audio callback and every
\* command thread that can take a step take one
FairRec ==
    /\ WF_vars(Uncounted(ThreadFail \/ ThreadPlay))
    /\ WF_vars(Uncounted(ThreadPollStop \/ ThreadPollFlag))
    /\ WF_vars(Uncounted(ThreadDrop))
    /\ WF_vars(Uncounted(CallbackAppend))
    /\ \A c \in Callers : WF_vars(Uncounted(StepRec(c)))

SpecRecFair == Init /\ [][NextRec]_vars /\ FairRec

\* the model handle alone: load, unload, transcribe
NextModel ==
    \/ \E c \in Callers : Counted(InvokeModel(c), MaxCalls)
    \/ \E c \in Callers : Uncounted(StepModel(c))

SpecModel == Init /\ [][NextModel]_vars

\* every command of the dictation pipeline
NextApp ==
    \/ \E c \in Callers : Counted(InvokeRec(c), MaxAppCalls)
    \/ \E c \in Callers : Counted(InvokeModel(c), MaxAppCalls)
    \/ \E c \in Callers : Counted(StopBegin(c, "record_and_transcribe", "rt_join"),
                                  MaxAppCalls)
    \/ \E c \in Callers, empty \in BOOLEAN : Counted(InjectText(c, empty), MaxAppCalls)
    \/ \E c \in Callers : Uncounted(StepRec(c))
    \/ \E c \in Callers : Uncounted(StepModel(c))
    \/ \E c \in Callers : Uncounted(StepApp(c))
    \/ Uncounted(Capture)

SpecApp == Init /\ [][NextApp]_vars

\* start_recording and cancel_recording with no bound on the number of
\* calls, the clock advancing by whole windows
MaxWindows == 1

NextStart ==
    \/ \E c \in Callers : Uncounted(StartRecording(c))
    \/ \E c \in Callers : Uncounted(StartLocked(c))
    \/ \E c \in Callers : Uncounted(StopBegin(c, "cancel_recording", "cancel_join"))
    \/ \E c \in Callers : Uncounted(CancelEnd(c))
    \/ Uncounted(Capture)
    \/ (now < MaxWindows * RecWindow /\ TickBy(RecWindow))

SpecStart == Init /\ [][NextStart]_vars

\* fix_sentence_casing is applied to the text
FixSentenceCasing ==
    /\ Len(cased) < MaxPasses
    /\ cased' = Append(cased,
                      fix_sentence_casing(IF cased = << >> THEN ppText
                                          ELSE cased[Len(cased)]))
    /\ UNCHANGED <<now, limiterVars, appVars, postVars, calls, reporterVars,
                   path, pathRes, injectorVars, extVars>>

\* the characters of the texts of SpecCasing: letters of both cases, a digit,
\* the sentence marks and a blank
CasingAlphabet == {"a", "B", "1", ".", "!", " "}

\* the strings over CasingAlphabet of length n or less
RECURSIVE Texts(_)
Texts(n) ==
    IF n = 0 THEN {""}
    ELSE LET shorter == Texts(n - 1)
         IN  shorter \cup {t \o ch : t \in shorter, ch \in CasingAlphabet}

InitCasing ==
    /\ now = 0 /\ InitLimiter /\ InitApp /\ InitAux
    /\ ppText \in Texts(MaxChars)
    /\ ppOut = << >>

NextCasing == FixSentenceCasing

SpecCasing == InitCasing /\ [][NextCasing]_vars

\* what a reporter step leaves alone
ReporterFrame ==
    UNCHANGED <<now, limiterVars, appRest, postVars, cased, path, pathRes,
                injectorVars, extVars>>

\* the report that recurs: the others are made MaxOtherReports times in all
Recurring ==
    [category |-> "audio", severity |-> "ERROR", message |-> "no device",
     details |-> << >>]

MayReport(r) ==
    IF r = Recurring THEN reportCalls[r] < MaxReports
    ELSE SumCalls(Reports \ {Recurring}) < MaxOtherReports

\* report and clear called one after the other, as a sequence of calls
NextReports ==
    \/ \E c \in Callers, r \in Reports :
          /\ \A d \in Callers : pc[d] = "idle"
          /\ MayReport(r)
          /\ ReportCount(c, r) /\ UNCHANGED calls /\ ReporterFrame
    \/ \E c \in Callers : ReportStore(c) /\ UNCHANGED calls /\ ReporterFrame
    \/ \E c \in Callers :
          /\ \A d \in Callers : pc[d] = "idle"
          /\ ClearErrors(c) /\ UNCHANGED calls /\ ReporterFrame
    \/ \E c \in Callers : ClearCounts(c) /\ UNCHANGED calls /\ ReporterFrame

SpecReports == Init /\ [][NextReports]_vars

\* the sizes of the files load_from_file reads
FileSizes == {0, 1, max_recent_errors - 1, max_recent_errors, max_recent_errors + 1}

\* report, load_from_file and clear called by concurrent threads
NextCache ==
    \/ \E c \in Callers, r \in Reports :
          /\ calls < MaxCacheCalls /\ calls' = calls + 1
          /\ ReportCount(c, r) /\ ReporterFrame
    \/ \E c \in Callers : ReportStore(c) /\ UNCHANGED calls /\ ReporterFrame
    \/ \E c \in Callers, n \in FileSizes :
          /\ calls < MaxCacheCalls /\ calls' = calls + 1
          /\ LoadFromFile(c, n) /\ ReporterFrame
    \/ \E c \in Callers :
          /\ calls < MaxCacheCalls /\ calls' = calls + 1
          /\ ClearErrors(c) /\ ReporterFrame
    \/ \E c \in Callers : ClearCounts(c) /\ UNCHANGED calls /\ ReporterFrame

SpecCache == Init /\ [][NextCache]_vars

\* the pieces of which the paths of SpecPath are made
PathPieces == {"/", "\\", "..", ".", "tmp", "WaveType", "C:", "etc"}

RECURSIVE Paths(_)
Paths(n) ==
    IF n = 0 THEN {""}
    ELSE Paths(n - 1) \cup {p \o q : p \in Paths(n - 1), q \in PathPieces}

InitPath ==
    /\ now = 0 /\ InitLimiter /\ InitApp /\ InitPost
    /\ cased = << >> /\ InitReporter
    /\ path \in Paths(MaxPieces) /\ pathRes = << >>
    /\ clipboard = <<"">> /\ keyEvents = << >>
    /\ InitExt

NextPath ==
    SanitizePath /\ UNCHANGED <<now, limiterVars, appVars, postVars, calls,
                                 cased, reporterVars, injectorVars, extVars>>

SpecPath == InitPath /\ [][NextPath]_vars

\* the texts injected: empty, only a control character, plain, with a newline
InjectedTexts == {"", "\f", "hi", "a\n"}

InitInject ==
    /\ now = 0 /\ InitLimiter /\ InitApp /\ InitPost
    /\ cased = << >> /\ InitReporter
    /\ path = "" /\ pathRes = << >>
    /\ InitInjector
    /\ InitExt

InjectFrame ==
    UNCHANGED <<now, limiterVars, appRest, pc, postVars, cased, reporterVars,
                path, pathRes, extVars>>

NextInject ==
    \/ \E text \in InjectedTexts, set_ok, type_ok \in BOOLEAN, failed_key \in 0 .. 3 :
          /\ calls < MaxInjects /\ calls' = calls + 1
          /\ InjectorInjectText(text, set_ok, failed_key, type_ok)
          /\ InjectFrame
    \/ \E text \in InjectedTexts, set_ok, type_ok \in BOOLEAN, failed_key \in 0 .. 3 :
          /\ calls < MaxInjects /\ calls' = calls + 1
          /\ InjectTextCommand(text, set_ok, failed_key, type_ok)
          /\ InjectFrame

SpecInject == InitInject /\ [][NextInject]_vars

\* inject_text and execute_shortcut called on the injector, any one key
\* event of a call failing
NextKeys ==
    \/ \E text \in InjectedTexts, set_ok, type_ok \in BOOLEAN, failed_key \in 0 .. 3 :
          /\ calls < MaxKeyCalls /\ calls' = calls + 1
          /\ InjectorInjectText(text, set_ok, failed_key, type_ok)
          /\ InjectFrame
    \/ \E shortcut \in DOMAIN shortcut_keys \cup {"delete_last"}, failed_key \in 0 .. 5 :
          /\ calls < MaxKeyCalls /\ calls' = calls + 1
          /\ InjectorExecuteShortcut(shortcut, failed_key)
          /\ InjectFrame

SpecKeys == InitInject /\ [][NextKeys]_vars

\* the model ids tried: those of get_model_url, and others
CandidateIds ==
    DOMAIN WhisperUrlFiles \cup DistilIds
    \cup {"", "Tiny", "large-v1", "distil-small", "tiny.bn", "huge", "../tiny",
          "ggml-tiny.bin"}

InitIds ==
    /\ now = 0 /\ InitLimiter /\ InitApp /\ InitPost
    /\ cased = << >> /\ InitReporter
    /\ path = "" /\ pathRes = << >>
    /\ clipboard = <<"">> /\ keyEvents = << >>
    /\ model_id \in CandidateIds
    /\ idRes = [cmd \in IdCommands |-> << >>]
    /\ InitFileVars
    /\ InitDlVars
    /\ InitLicVars

IdFrame ==
    UNCHANGED <<now, limiterVars, appVars, postVars, calls, cased,
                reporterVars, path, pathRes, injectorVars, fileVars,
                dlVars, licVars>>

NextIds ==
    \/ GetModelUrl /\ IdFrame
    \/ \E present \in BOOLEAN : IsModelDownloaded(present) /\ IdFrame
    \/ GetModelPath /\ IdFrame
    \/ AddTranscription /\ IdFrame

SpecIds == InitIds /\ [][NextIds]_vars

\* the failures of download_model before it creates the temp file
StartFailures ==
    {"none", "Failed to create models directory", "Failed to start download",
     "Download failed with status"}

\* the models directory before the downloads: no file of the model, or the
\* file of an earlier, complete download
InitDownload ==
    /\ now = 0 /\ InitLimiter /\ InitApp /\ InitPost
    /\ cased = << >> /\ InitReporter
    /\ path = "" /\ pathRes = << >>
    /\ clipboard = <<"">> /\ keyEvents = << >>
    /\ model_id = "tiny"
    /\ idRes = [cmd \in IdCommands |-> << >>]
    /\ InitFileVars
    /\ fs \in {[temp_path |-> 0, model_path |-> 0, files |-> << >>],
               [temp_path |-> 0, model_path |-> 1, files |-> <<Complete>>]}
    /\ dl = [d \in Downloads |-> [pc |-> "idle", file |-> 0, downloaded |-> 0]]
    /\ InitLicVars

\* download_model called for one model and for an unknown one, by the
\* frontend as often and as concurrently as it likes
NextDownload ==
    \/ \E d \in Downloads, id \in {"tiny", "nope"}, failure \in StartFailures :
          /\ calls < MaxDownloads /\ calls' = calls + 1
          /\ DlStart(d, id, failure) /\ DlFrame
    \/ \E d \in Downloads, ok \in BOOLEAN : DlCreate(d, ok) /\ DlFrame /\ UNCHANGED calls
    \/ \E d \in Downloads :
          \E outcome \in {"chunk", "Download error", "Failed to write chunk"} :
             DlChunk(d, outcome) /\ DlFrame /\ UNCHANGED calls
    \/ \E d \in Downloads, ok \in BOOLEAN : DlFlush(d, ok) /\ DlFrame /\ UNCHANGED calls
    \/ \E d \in Downloads, ok \in BOOLEAN : DlRename(d, ok) /\ DlFrame /\ UNCHANGED calls

SpecDownload == InitDownload /\ [][NextDownload]_vars

\* what the license server answers
ServerStatus == {"granted", "revoked", "disabled"}
ServerResponses == {"success", "404", "network error"}

LicCounted(A) ==
    A /\ calls < MaxLicenseCalls /\ calls' = calls + 1 /\ LicFrame

\* the license commands in any order, days passing between them
NextLicense ==
    \/ LicCounted(StartTrial)
    \/ \E activated \in BOOLEAN, status \in ServerStatus,
          expires_at \in ExpiryDays :
          LicCounted(ActivateLicense(activated, status, expires_at))
    \/ \E response \in ServerResponses, status \in ServerStatus,
          expires_at \in ExpiryDays :
          LicCounted(ValidateLicense(response, status, expires_at))
    \/ \E response \in ServerResponses \cup {"500"} :
          LicCounted(DeactivateLicense(response))
    \/ LicCounted(ClearStoredLicense)
    \/ NextDay /\ LicFrame /\ UNCHANGED calls

SpecLicense == Init /\ [][NextLicense]_vars

\* the state in which transcribe_file is called: no model loaded, or one of
\* the models stored by an earlier load_model
InitFile ==
    /\ now = 0 /\ InitLimiter /\ InitPost /\ InitAux
    /\ recRequests = << >>
    /\ recorder = FALSE
    /\ samples = << >>
    /\ is_recording = FALSE
    /\ command_sender = FALSE
    /\ thread_handle = FALSE
    /\ chan = "empty"
    /\ thread = "none"
    /\ cb = "idle"
    /\ transcriber \in {"none"} \cup Models
    /\ pc = [c \in Callers |-> "idle"]
    /\ arg = [c \in Callers |-> "none"]
    /\ taken = [c \in Callers |-> << >>]
    /\ dropped = [c \in Callers |-> "none"]
    /\ lateAppend = FALSE
    /\ lastRet = [cmd |-> "none", res |-> "none", out |-> << >>]
    /\ calls = 0

\* transcribe_file called again and again
NextFile ==
    \E file_path \in FilePaths, decoded, inferred \in BOOLEAN :
        /\ calls < MaxFileCalls /\ calls' = calls + 1
        /\ TranscribeFile(file_path, decoded, inferred)
        /\ UNCHANGED <<now, limiterVars, appRest, pc, postVars, cased,
                       reporterVars, path, pathRes, injectorVars, idVars,
                       dlVars, licVars>>

SpecFile == InitFile /\ [][NextFile]_vars

\* the phrases of which the transcripts of SpecPost are made
Vocabulary ==
    {"undo", "[[FOO]]", "main dot rs", "cap", "hello", "no space",
     "scratch that.", "api", "this", "new line", "@@@"}

RECURSIVE Transcripts(_)
Transcripts(n) ==
    IF n = 0 THEN {""}
    ELSE LET shorter == Transcripts(n - 1)
         IN  shorter \cup {IF t = "" THEN w ELSE t \o " " \o w :
                              t \in shorter, w \in Vocabulary}

NextPost == Process

\* the state after setup with a transcript handed to post_process_text
InitTranscript ==
    /\ now = 0 /\ InitLimiter /\ InitApp /\ InitAux
    /\ ppText \in Transcripts(MaxWords)
    /\ ppOut = << >>

SpecPost == InitTranscript /\ [][NextPost]_vars

NextLimiter ==
    \/ \E k \in Keys : Check(k)
    \/ (now < MaxTime /\ TickBy(1))

SpecLimiter ==
    Init /\ [][NextLimiter]_vars

----------------------------------------------------------------------------
(* C1 *)

\* the number of admitted calls for key k in the window (t - LimW, t]
AdmittedIn(k, t) ==
    Cardinality({i \in DOMAIN admitted[k] :
                    t - LimW < admitted[k][i] /\ admitted[k][i] <= t})

\* C1: for a limiter built with max_requests = LimN and window = LimW, the
\* calls of check for one key that return true within any window of LimW
\* seconds (the half-open window (t - LimW, t]) number at most LimN.
C1_AtMostNPerWindow ==
    \A k \in Keys : \A t \in 0 .. MaxTime + 1 : AdmittedIn(k, t) <= LimN

\* a call was rejected while the window held LimN admitted calls, some of
\* them made at an earlier second
C1_Witness ==
    /\ lastCheck.key \in Keys
    /\ ~ lastCheck.ok
    /\ AdmittedIn(lastCheck.key, now) = LimN
    /\ \E i \in DOMAIN admitted[lastCheck.key] :
          admitted[lastCheck.key][i] < now

----------------------------------------------------------------------------
(* C2 *)

RateLimited == [cmd |-> "start_recording", res |-> "Err: Rate limit exceeded",
                out |-> << >>]

\* C2: a start_recording call that the recording limiter (100 per 60 s)
\* rejects returns the rate-limit error at once and changes nothing else: no
\* AudioRecorder is created, no capture thread is spawned, the sample buffer
\* is not cleared and is_recording keeps its value.
C2_RejectedStartChangesNothing ==
    [][\A c \in Callers :
          (/\ ~ CheckAdmits(recRequests, now, RecMaxRequests, RecWindow)
           /\ StartRecording(c))
          => /\ lastRet' = RateLimited
             /\ pc'[c] = "idle"
             /\ UNCHANGED recorderVars]_vars

\* a start was rejected with 100 timestamps in the window while a recording
\* with captured audio was running: the buffer and the flag are intact
C2_Witness ==
    /\ lastRet = RateLimited
    /\ Len(recRequests) = RecMaxRequests
    /\ is_recording
    /\ samples # << >>
    /\ \A c \in Callers : pc[c] = "idle"

----------------------------------------------------------------------------
(* C3 *)

Recording == is_recording
Transcribing == \E c \in Callers : pc[c] \in {"rt_transcribing", "ta_transcribing"}
Injecting == \E c \in Callers : pc[c] = "injecting"

\* C3: at most one of Recording, Transcribing and Injecting is active at any
\* instant, under every interleaving of start_recording, stop_recording,
\* record_and_transcribe, transcribe_audio and inject_text.
C3_AtMostOneActive ==
    /\ ~ (Recording /\ Transcribing)
    /\ ~ (Recording /\ Injecting)
    /\ ~ (Transcribing /\ Injecting)

----------------------------------------------------------------------------
(* C4 *)

\* stop_recording or cancel_recording has returned and no start followed
Stopped == ~ is_recording /\ RecorderFree

----------------------------------------------------------------------------
(* C5 *)

\* C5: AudioRecorder::stop_recording fails with "No audio recorded" exactly
\* when the buffer is empty at the time of the stop, and otherwise returns a
\* non-empty vector (the buffer).
C5_NoAudioIffEmpty ==
    (lastRet.cmd = "stop_recording" /\ lastRet.res # "Err: No recorder initialized")
    => /\ lastRet.res \in {"Ok", "Err: No audio recorded"}
       /\ (lastRet.res = "Err: No audio recorded") <=> (samples = << >>)
       /\ lastRet.res = "Ok" => (lastRet.out # << >> /\ lastRet.out = samples)
       /\ lastRet.res # "Ok" => lastRet.out = << >>

\* stop_recording failed with "No audio recorded" on a recorder whose capture
\* thread had been started and was joined
C5_Witness ==
    /\ lastRet.cmd = "stop_recording"
    /\ lastRet.res = "Err: No audio recorded"
    /\ recorder
    /\ samples = << >>
    /\ thread = "none"
    /\ ~ thread_handle

----------------------------------------------------------------------------
(* C6 *)

AlreadyRecording == [cmd |-> "start_recording", res |-> "Err: Already recording",
                     out |-> << >>]

\* C6: start_recording on a recorder whose is_recording flag is true fails
\* with "Already recording" and leaves the recorder unchanged: the buffer,
\* the flag, the sender, the thread handle and the running thread.
C6_AlreadyRecordingUnchanged ==
    [][\A c \in Callers :
          (is_recording /\ StartLocked(c))
          => /\ lastRet' = AlreadyRecording
             /\ pc'[c] = "idle"
             /\ UNCHANGED recorderVars]_vars

\* a second start failed while the first recording was running with audio
\* in its buffer
C6_Witness ==
    /\ lastRet = AlreadyRecording
    /\ is_recording
    /\ samples # << >>
    /\ thread = "polling"
    /\ thread_handle /\ command_sender

----------------------------------------------------------------------------
(* C7 *)

\* the whisper contexts that exist: the one in TranscriberState and those
\* that load_model calls have constructed and not yet stored
LiveContexts ==
    (IF transcriber = "none" THEN 0 ELSE 1)
    + Cardinality({c \in Callers : pc[c] = "load_store"})

\* C7: at most one model handle is live at any instant under every
\* interleaving of load_model, unload_model and transcribe commands, two
\* concurrent load_model calls included.
C7_AtMostOneContext == LiveContexts <= 1

----------------------------------------------------------------------------
(* C8 *)

\* a load_model call that released a loaded model has not yet stored its own
Replacing ==
    \E c \in Callers : pc[c] \in {"load_new", "load_store"} /\ dropped[c] # "none"

\* C8: a transcribe_audio or record_and_transcribe call that runs while
\* load_model replaces a loaded model never fails with "No model loaded".
C8_NeverNoModelWhileReplacing ==
    [][\A c \in Callers :
          (/\ Replacing
           /\ \/ RtLock(c)
              \/ \E audio \in {<< >>, <<Frame>>} : TranscribeAudio(c, audio))
          => ~ (pc'[c] = "idle" /\ lastRet'.res = "Err: No model loaded")]_vars

----------------------------------------------------------------------------
(* C9 *)

\* C9: PostProcessor::process is idempotent: applied to its own result it
\* returns that result, so post-processing a transcript twice is safe.
C9_Idempotent == Len(ppOut) >= 2 => ppOut[2] = ppOut[1]

----------------------------------------------------------------------------
(* C10 *)

\* the command markers that process_voice_commands writes
MarkerNames ==
    {"DELETE_LAST", "UNDO", "REDO", "SELECT_ALL", "COPY", "CUT", "PASTE",
     "BACKSPACE", "DELETE_WORD", "DELETE_LINE", "ENTER", "TAB", "ESCAPE",
     "LEFT", "RIGHT", "UP", "DOWN", "HOME", "END", "WORD_LEFT", "WORD_RIGHT"}

\* the NAME of every substring [[NAME]] of s, NAME being without brackets
NamesIn(s) ==
    {SubSeq(s, ij[1] + 2, ij[2] - 1) :
        ij \in {p \in (1 .. Len(s) - 1) \X (1 .. Len(s) - 1) :
                  /\ p[2] > p[1] + 2
                  /\ SubSeq(s, p[1], p[1] + 1) = "[["
                  /\ SubSeq(s, p[2], p[2] + 1) = "]]"
                  /\ \A k \in p[1] + 2 .. p[2] - 1 :
                        CharAt(s, k) \notin {"[", "]"}}}

\* C10: every [[NAME]] in the result of process has its NAME among the 21
\* command markers; text of the transcript never passes through as a marker
\* with another name.
C10_MarkersClosed == Len(ppOut) >= 1 => NamesIn(ppOut[1]) \subseteq MarkerNames

----------------------------------------------------------------------------
(* C11 *)

\* C11: the result of PostProcessor::process never contains "@@", whatever
\* the input, runs of '@' in the input included.
C11_NoDoubleAt == Len(ppOut) >= 1 => ~ Contains(ppOut[1], "@@")

----------------------------------------------------------------------------
(* C12 *)

\* the words before a file phrase: none, or one of the words of
\* FILE_MENTION_PATTERN
FilePrefixes == {"", "in ", "the ", "open ", "edit ", "fix ", "refactor "}
FileNames == {"main", "index", "utils", "api"}
FileExts == {"rs", "ts", "json"}

\* the dictated phrase "w dot ext", alone or after a word
FilePhrase(p, w, e) == p \o w \o " dot " \o e

\* a file phrase is handed to post_process_text
InitFiles ==
    /\ now = 0 /\ InitLimiter /\ InitApp /\ InitAux
    /\ ppText \in {FilePhrase(p, w, e) :
                       p \in FilePrefixes, w \in FileNames, e \in FileExts}
    /\ ppOut = << >>

SpecFiles == InitFiles /\ [][NextPost]_vars

\* the places of s at which sub starts
Occurrences(s, sub) ==
    {i \in 1 .. Len(s) - Len(sub) + 1 : SubSeq(s, i, i + Len(sub) - 1) = sub}

----------------------------------------------------------------------------
(* C13 *)

\* the '.' at j has an alphanumeric character directly before and after it
FileDot(text, j) ==
    /\ 1 < j /\ j < Len(text)
    /\ CharAt(text, j) = "."
    /\ is_alphanumeric(CharAt(text, j - 1))
    /\ is_alphanumeric(CharAt(text, j + 1))

\* the character at i is the first alphabetic one of the text, or the first
\* after a '.', '!' or '?'
FirstAlphabeticAfterBreak(text, i) ==
    \E b \in 0 .. i - 1 :
        /\ b = 0 \/ CharAt(text, b) \in {".", "!", "?"}
        /\ \A j \in b + 1 .. i - 1 : ~ is_alphabetic(CharAt(text, j))

\* C13: fix_sentence_casing never upper-cases the character directly after a
\* '.' that stands between two alphanumeric characters; a character it does
\* change is an alphabetic one, replaced by its upper case, and the first
\* alphabetic character of the text or after a '.', '!' or '?'.
C13_CasingSparesFileDots ==
    cased # << >> =>
        /\ Len(cased[1]) = Len(ppText)
        /\ \A i \in 1 .. Len(ppText) :
              LET c == CharAt(ppText, i)
                  d == CharAt(cased[1], i)
              IN  /\ (i > 1 /\ FileDot(ppText, i - 1)) => d = c
                  /\ d # c => /\ is_alphabetic(c)
                              /\ d = UpperChar(c)
                              /\ FirstAlphabeticAfterBreak(ppText, i)

\* "a.a" was cased: the first letter is upper-cased, the one after the dot
\* of the file name is not
C13_Witness == ppText = "a.a" /\ cased # << >> /\ cased[1] = "A.a"

----------------------------------------------------------------------------
(* Keyboard shortcuts (lib.rs 778-816, text_inject.rs 115-307) *)

\* allowed_shortcuts of the execute_keyboard_shortcut command
allowed_shortcuts ==
    {"undo", "redo", "copy", "cut", "paste", "select_all", "backspace_word",
     "backspace", "delete_word", "delete_line", "enter", "tab", "escape",
     "left", "right", "up", "down", "home", "end", "word_left", "word_right"}

\* the arms of the match in TextInjector::execute_shortcut; every other
\* name falls to the arm _ => Err("Unknown shortcut")
shortcut_arms ==
    {"undo", "redo", "copy", "cut", "paste", "select_all", "backspace_word",
     "delete_word", "backspace", "delete_line", "enter", "tab", "escape",
     "left", "right", "up", "down", "home", "end", "word_left", "word_right"}

\* TextInjector::execute_shortcut: the key events of an arm are sent with
\* .ok(), so a known shortcut returns Ok whatever enigo answers
execute_shortcut(shortcut) ==
    IF shortcut \in shortcut_arms THEN "Ok" ELSE "Err: Unknown shortcut"

\* the execute_keyboard_shortcut command
ExecuteKeyboardShortcut(c, shortcut) ==
    /\ pc[c] = "idle"
    /\ IF shortcut \notin allowed_shortcuts
       THEN Return(c, "execute_keyboard_shortcut", "Err: Invalid shortcut", <<shortcut>>)
       ELSE /\ InjectorFree
            /\ Return(c, "execute_keyboard_shortcut", execute_shortcut(shortcut),
                      <<shortcut>>)
    /\ UNCHANGED appRest

\* the frontend dispatches a marker of the processed transcript:
\* execute_shortcut(lower(NAME))
DispatchMarker(c) ==
    /\ ppOut # << >>
    /\ \E name \in NamesIn(ppOut[Len(ppOut)]) :
          ExecuteKeyboardShortcut(c, to_lowercase(name))

\* one dictated phrase for each marker of process_voice_commands, and two
\* transcripts with plain text
CommandPhrases ==
    {"scratch that", "undo", "redo", "select all", "copy that", "cut that",
     "paste", "backspace", "delete word", "delete line", "press enter",
     "press tab", "press escape", "go left", "go right", "go up", "go down",
     "home key", "end key", "word left", "next word", "hello undo",
     "undo redo"}

InitDispatch ==
    /\ now = 0 /\ InitLimiter /\ InitApp /\ InitAux
    /\ ppText \in CommandPhrases
    /\ ppOut = << >>

NextDispatch ==
    \/ Process
    \/ \E c \in Callers :
          /\ DispatchMarker(c)
          /\ calls < MaxDispatch
          /\ calls' = calls + 1
          /\ UNCHANGED <<now, limiterVars, postVars, auxVars>>

SpecDispatch == InitDispatch /\ [][NextDispatch]_vars

----------------------------------------------------------------------------
(* C14 *)

\* C14: the lower-cased name of every marker that process emits is a
\* shortcut that execute_keyboard_shortcut accepts and execute_shortcut
\* handles: dispatching it never fails as invalid or unknown.
C14_MarkersAreShortcuts ==
    lastRet.cmd = "execute_keyboard_shortcut"
    => lastRet.res \notin {"Err: Invalid shortcut", "Err: Unknown shortcut"}

----------------------------------------------------------------------------
(* C15, C16: the cache of the ErrorReporter *)

\* the stored copies of the nth report with fingerprint f
CopiesOf(f, k) ==
    {i \in 1 .. Len(stored) : stored[i].fp = f /\ stored[i].nth = k}

\* the report calls with fingerprint f that have finished
Finished(f) ==
    CallsWith(f) - Cardinality({c \in Callers : pending[c] # << >>
                                    /\ pending[c][1].fp = f})

\* C15: the k-th report with a fingerprint, counted since construction or
\* the last clear, is appended to the cache exactly when k <= 10 or k is a
\* multiple of 100, and the appended copy carries occurrence_count = k;
\* reports that agree on category, severity and message share one counter,
\* whatever their details
C15_StoredFirstTenAndEveryHundredth ==
    (\A c \in Callers : pc[c] # "clear_counts") =>
    \A f \in Fingerprints :
        /\ error_counts[f] = CallsWith(f)
        /\ \A k \in 1 .. Finished(f) :
              /\ Cardinality(CopiesOf(f, k)) = IF k <= 10 \/ k % 100 = 0 THEN 1 ELSE 0
              /\ \A i \in CopiesOf(f, k) : stored[i].occurrence_count = k

\* the fingerprint was reported 101 times with both kinds of details: eleven
\* copies are in the cache, the last of them the 100th
C15_Witness ==
    /\ Finished("audio:ERROR:no device") > 100
    /\ \E i, j \in 1 .. Len(recent_errors) :
          /\ recent_errors[i].report.details # recent_errors[j].report.details
          /\ recent_errors[i].report.category = "audio"
          /\ recent_errors[j].report.category = "audio"
    /\ \E i \in 1 .. Len(recent_errors) : recent_errors[i].occurrence_count = 100

\* the last n elements of a sequence
LastN(seq, n) ==
    IF Len(seq) > n THEN SubSeq(seq, Len(seq) - n + 1, Len(seq)) ELSE seq

\* C16: whatever the interleaving of report, load_from_file and clear, the
\* cache holds at most 100 reports, and they are the most recent of those
\* stored since the last clear: the oldest are evicted first
C16_CacheBoundedFifo ==
    /\ Len(recent_errors) <= max_recent_errors
    /\ recent_errors = LastN(stored, max_recent_errors)

\* a report was pushed onto a full cache and a loaded one evicted for it
C16_Witness ==
    /\ Len(stored) > max_recent_errors
    /\ Len(recent_errors) = max_recent_errors
    /\ recent_errors[max_recent_errors].nth > 0
    /\ recent_errors[1].nth = 0

----------------------------------------------------------------------------
(* C17 *)

\* C17: backslashes are normalised before validation: when sanitize_path
\* accepts a path, the normalised path it returns contains neither ".."
\* nor "//"
C17_AcceptedPathIsClean ==
    (pathRes # << >> /\ pathRes[1].ok) =>
        /\ ~ Contains(pathRes[1].val, "..")
        /\ ~ Contains(pathRes[1].val, "//")

----------------------------------------------------------------------------
(* C18, C19 *)

\* the last call was TextInjector::inject_text or the command
Injected == lastRet.cmd \in {"TextInjector::inject_text", "inject_text"}

\* C18 as stated: for non-empty text a failure of the clipboard path is
\* invisible: inject_text returns an error only if the typing fallback was
\* attempted and failed
C18_ErrorOnlyAfterFallback ==
    (Injected /\ lastRet.out.text # "" /\ lastRet.res # "Ok") =>
        lastRet.out.route = "typing"

\* C18, amended: for non-empty text, when the clipboard is unavailable or
\* set_text fails the text is typed, and the call fails exactly when the
\* typing fails; when set_text succeeds the paste chord is synthesised, the
\* text is not typed, and the call fails exactly when a key event of the
\* chord fails
C18_FallbackUnlessClipboardSet ==
    (Injected /\ lastRet.out.text # "") =>
        IF lastRet.out.clipboard_before = << >> \/ ~ lastRet.out.set_ok
        THEN /\ lastRet.out.route = "typing"
             /\ lastRet.res = "Ok" <=> lastRet.out.type_ok
             /\ clipboard = lastRet.out.clipboard_before
             /\ lastRet.out.type_ok =>
                   keyEvents[Len(keyEvents)] = "text " \o lastRet.out.text
        ELSE /\ lastRet.out.route = "paste"
             /\ lastRet.res = "Ok" <=> lastRet.out.failed_key = 0
             /\ clipboard = <<lastRet.out.text>>
             /\ \A i \in lastRet.out.events_before + 1 .. Len(keyEvents) :
                   keyEvents[i] \in {PasteChord[j] : j \in 1 .. 3}

\* set_text failed on a clipboard that is there, and the text was typed
C18_Witness ==
    /\ Injected /\ lastRet.out.text = "hi"
    /\ lastRet.out.clipboard_before # << >> /\ ~ lastRet.out.set_ok
    /\ lastRet.res = "Ok"
    /\ keyEvents # << >> /\ keyEvents[Len(keyEvents)] = "text hi"

\* C19 as stated: empty input, or input that sanitisation empties, is a
\* no-op for TextInjector::inject_text and for the command: success, the
\* clipboard not written, no key event
C19_EmptyIsNoOp ==
    (Injected /\ lastRet.out.text = "") =>
        /\ lastRet.res = "Ok"
        /\ clipboard = lastRet.out.clipboard_before
        /\ Len(keyEvents) = lastRet.out.events_before

\* every character of the text is a control character other than \n, \r, \t
OnlyRemoved(text) ==
    \A i \in 1 .. Len(text) :
        is_control(CharAt(text, i)) /\ CharAt(text, i) \notin {"\n", "\r", "\t"}

\* C19, amended: on empty text TextInjector::inject_text returns Ok; on text
\* that is empty or consists of removed control characters the command
\* returns the error "No text to inject"; neither writes the clipboard or
\* synthesises a key event
C19_EmptyTouchesNothing ==
    /\ (lastRet.cmd = "TextInjector::inject_text" /\ lastRet.out.raw = "") =>
          /\ lastRet.res = "Ok"
          /\ clipboard = lastRet.out.clipboard_before
          /\ Len(keyEvents) = lastRet.out.events_before
    /\ (lastRet.cmd = "inject_text" /\ OnlyRemoved(lastRet.out.raw)) =>
          /\ lastRet.res = "Err: No text to inject"
          /\ clipboard = lastRet.out.clipboard_before
          /\ Len(keyEvents) = lastRet.out.events_before

\* the command was given a form feed after an injection that left key
\* events, and refused it
C19_Witness ==
    /\ lastRet.cmd = "inject_text" /\ lastRet.out.raw = "\f"
    /\ lastRet.res = "Err: No text to inject"
    /\ keyEvents # << >>

----------------------------------------------------------------------------
(* C20 *)

\* C20: at any point in time, for every action key, no timestamp stored in
\* the limiter is older than the window, and no key holds more than
\* max_requests timestamps
C20_NoStaleTimestamps ==
    \A k \in Keys :
        /\ \A i \in DOMAIN requests[k] : now - requests[k][i] <= LimW
        /\ Len(requests[k]) <= LimN

----------------------------------------------------------------------------
(* C21 *)

\* C21: the samples of one recording are read exactly once: when the last
\* command to return was a stop_recording (with samples or with an error)
\* and no start_recording has returned since, a stop_recording that returns
\* hands out no samples and a record_and_transcribe takes none
C21_SamplesReadOnce ==
    [][\A c \in Callers :
          lastRet.cmd = "stop_recording" =>
              /\ (pc[c] = "stop_join" /\ pc'[c] = "idle") => lastRet'.out = << >>
              /\ (pc[c] = "rt_join" /\ pc'[c] # "rt_join") => taken'[c] = << >>]_vars

----------------------------------------------------------------------------
(* C22 *)

\* the capture thread returned with a device error and neither stop nor
\* cancel has been called for this recording: the sender is still in place,
\* and no other path lets the thread exit while it is
DeviceFailed == thread = "exited" /\ command_sender

\* C22: when the capture thread cannot record because the device is
\* missing, the recorder is Idle again without a stop or cancel:
\* is_recording() is false and start_recording is not refused with
\* "Already recording"
C22_DeviceErrorReturnsToIdle ==
    DeviceFailed =>
        /\ ~ is_recording
        /\ ~ (lastRet.cmd = "start_recording"
              /\ lastRet.res = "Err: Already recording")

----------------------------------------------------------------------------
(* C23 *)

\* the command has returned and did not refuse the id
Accepted(cmd) == idRes[cmd] # << >> /\ idRes[cmd] # InvalidModelId

Refused(cmd) == idRes[cmd] = InvalidModelId

IdChecked == {"is_model_downloaded", "get_model_path", "add_transcription"}

\* C23: the closed set of model ids is the same everywhere: an id for which
\* get_model_url returns a URL is refused by none of is_model_downloaded,
\* get_model_path and add_transcription, and an id one of them accepts has
\* a URL and the file name ggml-<id>.bin
C23_SameIdsEverywhere ==
    /\ idRes["get_model_url"] # << >> =>
          \A cmd \in IdChecked :
              /\ (idRes["get_model_url"][1] = "Some") => ~ Refused(cmd)
              /\ Accepted(cmd) => idRes["get_model_url"][1] = "Some"
    /\ Accepted("get_model_path") =>
          idRes["get_model_path"][2] = "models/ggml-" \o model_id \o ".bin"

----------------------------------------------------------------------------
(* C24, C25 *)

\* caller c is inside stop_recording or cancel_recording, the recorder locked
Stopping(c) == pc[c] \in {"stop_join", "cancel_join"}

\* C24: cancel is race-safe with stop: however a stop_recording and a
\* cancel_recording interleave, each of them returns; the one that finds
\* the thread handle joins the exited thread, the later one finds sender and
\* handle taken and no thread left; and each returns with is_recording false
C24_CancelRaceSafeWithStop ==
    /\ [][\A c \in Callers :
            (Stopping(c) /\ pc'[c] = "idle") =>
                /\ thread_handle => thread = "exited"
                /\ ~ thread_handle => thread = "none"
                /\ thread' = "none" /\ ~ thread_handle' /\ ~ command_sender'
                /\ ~ is_recording']_vars
    /\ \A c \in Callers : Stopping(c) ~> pc[c] = "idle"

\* a cancel_recording is under way right after a stop_recording returned
\* the samples: it finds the handle taken and the thread joined
C24_Witness ==
    /\ \E c \in Callers : pc[c] = "cancel_join"
    /\ lastRet.cmd = "stop_recording" /\ lastRet.res = "Ok"
    /\ ~ thread_handle /\ thread = "none"

\* the capture thread has left run_recording_thread, or was joined
ThreadGone == thread \in {"exited", "none"}

\* C25: stop_recording and cancel_recording always terminate: once the flag
\* is cleared and Stop is sent the capture thread leaves its poll loop (or
\* has exited before on a device error, the send failing), the stream is
\* released, and the call returns with the thread joined
C25_StopAndCancelTerminate ==
    /\ (thread = "polling" /\ ~ is_recording) ~> ThreadGone
    /\ \A c \in Callers :
          Stopping(c) ~> (pc[c] = "idle" /\ thread = "none" /\ ~ thread_handle)

\* a stop or cancel waits in its join for a thread that has exited without
\* having received the Stop it was sent
C25_Witness ==
    /\ \E c \in Callers : Stopping(c)
    /\ thread = "exited" /\ thread_handle /\ chan = "stop"

----------------------------------------------------------------------------
(* C26 *)

Modifiers == {"Control", "Meta", "Alt", "Shift"}

\* how often the event occurs among the key events synthesised so far
Sent(event) == Cardinality({i \in 1 .. Len(keyEvents) : keyEvents[i] = event})

\* C26: no modifier key is left held down: whenever inject_text or
\* execute_shortcut has returned, with Ok or Err, every modifier that was
\* pressed has been released as often
C26_NoModifierHeld ==
    \A m \in Modifiers : Sent("press " \o m) = Sent("release " \o m)

----------------------------------------------------------------------------
(* C27 *)

\* C27: a failed load_model leaves the model state unchanged: when
\* Transcriber::new fails, the model this call found loaded is loaded
\* still, and when the model file is missing the handle is not touched
C27_FailedLoadKeepsModel ==
    [][\A c \in Callers :
          /\ (pc[c] = "load_new" /\ pc'[c] = "idle" /\ dropped[c] # "none")
                => transcriber' = dropped[c]
          /\ (\E m \in Models : LoadModel(c, m, FALSE))
                => transcriber' = transcriber]_vars

----------------------------------------------------------------------------
(* C28 *)

\* C28: transcribe_file decodes exactly the path it validated: a file that
\* read_audio_file opens is the sanitised, normalised path that passed the
\* existence, extension and size checks, and nothing is opened when the
\* rate limiter or one of the checks refuses
C28_OpensTheValidatedPath ==
    lastRet.cmd = "transcribe_file" =>
        /\ \A i \in 1 .. Len(opened) :
              /\ lastRet.out.safe_path # << >>
              /\ opened[i] = lastRet.out.safe_path[1]
        /\ lastRet.out.checked # "Ok" => opened = << >>

----------------------------------------------------------------------------
(* C29 *)

\* C29: the model file exists at its final path only after a download has
\* completed in full: whatever fails, and however two download_model calls
\* for the model interleave, a file that is_model_downloaded reports holds
\* the complete body
C29_FinalFileIsComplete ==
    Downloader_is_model_downloaded => fs.files[fs.model_path] = Complete

----------------------------------------------------------------------------
(* C30 *)

\* C30: the 7-day trial is granted at most once: once start_trial has
\* recorded trial_started_at, no later start_trial records a newer start,
\* whatever license commands ran in between, and once the trial has expired
\* the application is usable only with a license the manager accepts
C30_TrialGrantedOnce ==
    /\ \A i \in 1 .. Len(trial_starts) : trial_starts[i] = trial_starts[1]
    /\ (trial_starts # << >> /\ today - trial_starts[1] >= TrialDays
            /\ is_license_valid) => LicenseManager_is_valid
====
